---- MODULE Spec2Model ----
(***************************************************************************)
(* State-machine model of the Todo application (Phase 2 task tracker and   *)
(* Phase 3 chat assistant): the conversational agent flow                  *)
(* (process_user_message / chat_endpoint), the message store, the task     *)
(* store behind the HTTP surface with its tools, registration over the     *)
(* users table, and the web client: the HTTP client, the session (token    *)
(* storage, sign-in, route protection), the task form, the dashboard with  *)
(* its task list and task items, and the chat views.                       *)
(***************************************************************************)
EXTENDS Integers, Sequences, FiniteSets, TLC

(***************************************************************************)
(* Bounds of the model and program constants                               *)
(***************************************************************************)
Users == {"A", "B"}
ConvIds == {"c1", "c2"}
UserTexts == {"m1"}
LLMTexts == {"reply"}
LLMErrors == {"rate_limit", "timeout"}

\* maximum length of a task title
MaxTitleLength == 500

\* a title: `core` characters of text with `pad` whitespace characters around
\* it (core = 0: empty or all whitespace)
Title(pad, core) == [pad |-> pad, core |-> core]

\* title.length
TitleLength(t) == t.pad + t.core

\* title.trim()
TitleTrim(t) == Title(0, t.core)

EmptyTitle == Title(0, 0)

\* titles a caller may submit
Titles ==
  {Title(p, c) : p \in {0, 1},
                 c \in {0, 1, MaxTitleLength - 1, MaxTitleLength, MaxTitleLength + 1}}

\* rows the message store may hold in the chat specification
MaxMsgs == 6
\* rows the message store may hold in the one-conversation specification
TurnMaxMsgs == 7
\* chat requests the server may be serving at once
MaxConcurrent == 2
\* tool calls one model response may request
MaxToolCalls == 2
\* tasks ever created
MaxTasks == 2
\* server restarts
MaxRestarts == 1
\* chat requests cancelled while being served
MaxCancels == 1
\* rows the message store may hold in the single-conversation specification
WindowMaxMsgs == 16
\* turns the conversation of the single-conversation specification has had
WindowTurns == 4

\* bubbles a chat view may show
MaxTranscript == 4

\* limit of get_conversation_history (the context-window policy)
ContextWindow == 10

None == "none"

(***************************************************************************)
(* Values                                                                  *)
(***************************************************************************)
\* the uniform tool result (success flag, outcome, affected task, listed ids)
Envelope(ok, what, tid, ids) ==
  [success |-> ok, what |-> what, task_id |-> tid, ids |-> ids]

NoEnvelope == Envelope(FALSE, None, 0, {})

\* message content: absent, plain text, or a JSON-encoded tool result
NoContent == [kind |-> None, text |-> None, env |-> NoEnvelope]

Text(s) == [kind |-> "text", text |-> s, env |-> NoEnvelope]

SYSTEM_PROMPT == [kind |-> "text", text |-> "system_prompt", env |-> NoEnvelope]

\* json.dumps(tool_result)
JsonDumps(envelope) == [kind |-> "json", text |-> None, env |-> envelope]

\* f"I encountered an error: {str(e)}. Please try again."
ErrorMessage(e) == [kind |-> "text", text |-> e, env |-> NoEnvelope]

ErrorTexts == LLMErrors \cup {"json_decode_error"}

ToolNames == {"create_task", "get_user_tasks", "update_task_status", "delete_task"}

\* tool_call.function.arguments: a JSON string; parses = FALSE is a string
\* json.loads rejects. user_id is the owner the model wrote (None: omitted).
Arguments(p, o, k) == [parses |-> p, user_id |-> o, task_id |-> k]

ToolCall(n, a) == [name |-> n, arguments |-> a]

\* owner values the model writes into a tool call: omitted, or user B
ModelOwners == {None, "B"}

\* task ids the model names in a tool call
ToolTaskIds == {1}

ToolCalls ==
  {ToolCall(n, Arguments(TRUE, o, 0)) :
     n \in {"create_task", "get_user_tasks", "unknown_tool"}, o \in ModelOwners}
  \cup {ToolCall(n, Arguments(TRUE, o, k)) :
     n \in {"update_task_status", "delete_task"}, o \in ModelOwners, k \in ToolTaskIds}
  \cup {ToolCall("create_task", Arguments(FALSE, None, 0))}

ToolCallLists ==
  UNION {[1..n -> ToolCalls] : n \in 1..MaxToolCalls}

(***************************************************************************)
(* State                                                                   *)
(***************************************************************************)
VARIABLES
  store,      \* table ConversationMessage: rows in insertion order
  tasks,      \* table tasks: set of rows
  nextTaskId, \* auto-increment of tasks.id
  clock,      \* number of ConversationMessage objects constructed so far
  pc,         \* position of each chat request being served, by slot
  req,        \* the ChatRequest each slot is serving
  ctx,        \* `messages`, the context list of each process_user_message
  pending,    \* tool calls of the model response not yet executed, by slot
  saving,     \* the message whose save_message each request is awaiting
  turnIdx,    \* positions in the store of the rows each request has stored
  turnCalls,  \* tool calls the model requested in each slot's turn
  lastTool,   \* the most recent tool invocation made by execute_mcp_tool
  resp,       \* the HTTP response of the most recent chat request
  restarts,   \* number of server restarts so far
  cancels,    \* number of chat requests cancelled so far
  llmCalls,   \* calls of groq_client.chat.completions.create issued in each turn
  attempts,   \* attempts made of the model call each request issued last
  tresp,      \* the HTTP response of the most recent task request
  view,       \* which chat view this is: the chat page or the dashboard widget
  messages,   \* useState: the transcript shown
  input,      \* useState: the text of the input field (chatInput in the widget)
  conversationId, \* useState: the active conversation id (0: null)
  loading,    \* useState: a chat request is in flight (chatLoading in the widget)
  error,      \* useState: the inline error ("": null)
  sendPc,     \* position of handleSendMessage
  sendConv,   \* conversationId as captured by the running handleSendMessage
  histPc,     \* position of loadConversationHistory
  histConv,   \* latestConversation.id
  expected,   \* the transcript as it would be had the current send not been made
  submitted,  \* the text of the input field when the current send was submitted
  lastOutcome, \* how the most recent send ended
  chatInFlight, \* chat requests sent and not yet completed
  ignored,    \* the most recent handleSendMessage call returned at once
  firstConv,  \* the conversation id the first successful reply returned (0: none yet)
  apiOut,     \* outcome of the most recent ApiClient.request call
  auth_token, \* localStorage 'auth_token' ("": absent)
  auth_user,  \* localStorage 'auth_user' ("": absent)
  tokenExpired, \* the expiry of the stored token has passed
  route,      \* the path the browser shows
  pagePc,     \* position of the page being mounted
  rendered,   \* the protected content of the page is on screen
  authPc,     \* position of the handler of the form on screen (loading: not idle)
  authPending, \* sign-in / sign-up requests sent and not yet settled
  lastAuth,   \* the most recent answer of /api/auth/signin or /api/auth/signup
  formError,  \* useState: the inline error of the form
  svc,        \* the most recent call of a task or chat service method
  signedOut,  \* signed out, and not signed in or up since
  mw,         \* what the middleware did with the most recent page request
  toolOut,    \* the most recent call of the complete_task tool
  lastTitle,  \* the title of the most recent create request, as received
  formTitle,  \* TaskForm useState: title
  formErr,    \* TaskForm useState: error
  formPc,     \* position of TaskForm.handleSubmit
  formData,   \* the title TaskForm passed to onSubmit
  formChecked, \* the title handleSubmit most recently ran on
  formResp,   \* how the awaited onSubmit(data) ended, once it has
  users,      \* table users: set of rows
  reg,        \* the registration requests being served, by connection
  dashTasks,  \* DashboardPage useState: tasks
  dashLoading, \* DashboardPage useState: loading
  dashError,  \* DashboardPage useState: error
  showForm,   \* DashboardPage useState: showForm
  editingTask, \* DashboardPage useState: editingTask, by id (0: null)
  isToggling, \* TaskItem useState: isToggling, by task id
  isDeleting, \* TaskItem useState: isDeleting, by task id
  inflight,   \* task requests the dashboard has sent and not yet completed
  lastConfirm, \* the most recent confirmation prompt and its answer
  requestFailed, \* some task request of the dashboard has failed
  sentCount   \* requests the dashboard (its widget included) has sent so far

chatVars == <<store, clock, pc, req, ctx, pending, saving, turnIdx, turnCalls,
              lastTool, resp, restarts, cancels, llmCalls, attempts>>

taskVars == <<tasks, nextTaskId>>

uiVars == <<view, messages, input, conversationId, loading, error, sendPc, sendConv,
            histPc, histConv, expected, submitted, lastOutcome, chatInFlight,
            ignored, firstConv>>

authVars == <<auth_token, auth_user, tokenExpired, route, pagePc, rendered, authPc,
              authPending, lastAuth, formError, svc, signedOut, mw>>

formVars == <<formTitle, formErr, formPc, formData, formChecked, formResp>>

accountVars == <<users, reg>>

dashVars == <<dashTasks, dashLoading, dashError, showForm, editingTask, isToggling,
              isDeleting, inflight, lastConfirm, requestFailed, sentCount>>

backVars == <<toolOut, lastTitle, formVars, accountVars, dashVars>>

webVars == <<apiOut, authVars, backVars>>

NoTaskResp == [op |-> None, caller |-> None, id |-> 0, status |-> 0, body |-> <<>>]

NoReq == [conversation_id |-> None, user_id |-> None, message |-> None]

NoTool == [caller |-> None, name |-> None, user_id |-> None, task_id |-> 0]

NoResp == [status |-> 0, response |-> NoContent, conversation_id |-> None,
           failed |-> FALSE]

(***************************************************************************)
(* Message store                                                           *)
(***************************************************************************)
\* ConversationMessage(...): the object save_message constructs. created_at
\* defaults to the time of construction (default_factory=datetime.utcnow);
\* the id is assigned by the insert.
ConversationMessage(cid, uid, role, content, toolCalls, name, at) ==
  [id |-> 0, conversation_id |-> cid, user_id |-> uid, role |-> role,
   content |-> content, tool_calls |-> toolCalls, name |-> name,
   created_at |-> at]

\* no message under construction
NoRow == ConversationMessage(None, None, None, NoContent, <<>>, None, 0)

\* tool results are not written to the table
save_message_dropping_tool_rows(st, message) ==
  IF message.role = "tool" THEN st
  ELSE Append(st, [message EXCEPT !.id = Len(st) + 1])

\* save_message: session.add(message); await session.flush(): the insert.
\* An empty tool_calls list is stored as NULL
\* (`json.dumps(tool_calls) if tool_calls else None`).
save_message(st, message) == Append(st, [message EXCEPT !.id = Len(st) + 1])

RECURSIVE OrderByCreatedAt(_)
\* ORDER BY created_at (ascending)
OrderByCreatedAt(rows) ==
  IF rows = {} THEN <<>>
  ELSE LET first == CHOOSE r \in rows : \A q \in rows : r.created_at <= q.created_at
       IN  <<first>> \o OrderByCreatedAt(rows \ {first})

\* one database row in the OpenAI message format
OpenAIMessage(row) ==
  [role |-> row.role, content |-> row.content, tool_calls |-> row.tool_calls,
   name |-> row.name]

\* load_conversation_history: every row of the conversation, oldest first
load_conversation_history(st, cid) ==
  LET sorted == OrderByCreatedAt({st[i] : i \in {j \in DOMAIN st : st[j].conversation_id = cid}})
  IN  [i \in DOMAIN sorted |-> OpenAIMessage(sorted[i])]

(***************************************************************************)
(* Task store and the tools over it                                        *)
(***************************************************************************)
\* a row of the tasks table; created_at defaults to NOW() at the insert
Task(id, uid, title, done, at) ==
  [id |-> id, user_id |-> uid, title |-> title, completed |-> done, created_at |-> at]

RECURSIVE NewestFirst(_)
\* ORDER BY created_at DESC
NewestFirst(ts) ==
  IF ts = {} THEN <<>>
  ELSE LET newest == CHOOSE t \in ts : \A q \in ts : q.created_at <= t.created_at
       IN  <<newest>> \o NewestFirst(ts \ {newest})

\* sequence s without its i-th element
Remove(s, i) == SubSeq(s, 1, i - 1) \o SubSeq(s, i + 1, Len(s))

\* the rows of a query result, whatever their order
Rows(list) == {list[i] : i \in DOMAIN list}

\* SELECT * FROM tasks WHERE id = ?  (no owner filter)
TasksByIdAnyOwner(ts, uid, id) == {t \in ts : t.id = id}

\* SELECT * FROM tasks WHERE id = ? AND user_id = ?
TasksById(ts, uid, id) == {t \in ts : t.id = id /\ t.user_id = uid}

\* SELECT * FROM tasks WHERE user_id = ? ORDER BY created_at DESC
TasksOf(ts, uid) == NewestFirst({t \in ts : t.user_id = uid})

\* the task table after the tool ran
ToolTasks(ts, nid, name, uid, tid) ==
  CASE name = "create_task" /\ nid <= MaxTasks ->
         ts \cup {Task(nid, uid, Title(0, 1), FALSE, nid)}
    [] name = "update_task_status" /\ TasksById(ts, uid, tid) # {} ->
         {IF t \in TasksById(ts, uid, tid) THEN [t EXCEPT !.completed = TRUE] ELSE t : t \in ts}
    [] name = "delete_task" /\ TasksById(ts, uid, tid) # {} ->
         ts \ TasksById(ts, uid, tid)
    [] OTHER -> ts

\* the envelope the tool returns
ToolResult(ts, nid, name, uid, tid) ==
  CASE name = "create_task" ->
         IF nid <= MaxTasks THEN Envelope(TRUE, "created", nid, {})
         ELSE Envelope(FALSE, "store_error", 0, {})
    [] name = "get_user_tasks" ->
         Envelope(TRUE, "listed", 0, {t.id : t \in Rows(TasksOf(ts, uid))})
    [] name = "update_task_status" ->
         IF TasksById(ts, uid, tid) # {} THEN Envelope(TRUE, "updated", tid, {})
         ELSE Envelope(FALSE, "not_found", tid, {})
    [] name = "delete_task" ->
         IF TasksById(ts, uid, tid) # {} THEN Envelope(TRUE, "deleted", tid, {})
         ELSE Envelope(FALSE, "not_found", tid, {})
    [] OTHER -> Envelope(FALSE, "unknown_tool", 0, {})

\* execute_mcp_tool: unknown names and raised exceptions become failure envelopes
execute_mcp_tool(ts, nid, name, args) ==
  IF name \notin ToolNames THEN Envelope(FALSE, "unknown_tool", 0, {})
  ELSE ToolResult(ts, nid, name, args.user_id, args.task_id)

ToolArgsTrusting(args, uid) ==
  IF args.user_id = None THEN [args EXCEPT !.user_id = uid] ELSE args

\* tool_args = json.loads(arguments); tool_args["user_id"] = user_id
ToolArgs(args, uid) == [args EXCEPT !.user_id = uid]

NoToolOut ==
  [caller |-> None, task_id |-> 0, owned |-> FALSE, wasCompleted |-> FALSE,
   envelope |-> NoEnvelope]

\* one invocation of complete_task on behalf of owner u: execute_mcp_tool
\* is called with the tool's name and the arguments user_id and task_id
CompleteTask(u, id) ==
  LET args   == ToolArgs(Arguments(TRUE, None, id), u)
      result == execute_mcp_tool(tasks, nextTaskId, "complete_task", args)
  IN  /\ tasks' = IF "complete_task" \in ToolNames
                  THEN ToolTasks(tasks, nextTaskId, "complete_task",
                                 args.user_id, args.task_id)
                  ELSE tasks
      /\ toolOut' = [caller |-> u, task_id |-> id,
                     owned |-> TasksById(tasks, u, id) # {},
                     wasCompleted |-> \E t \in TasksById(tasks, u, id) : t.completed,
                     envelope |-> result]
      /\ UNCHANGED <<chatVars, nextTaskId, tresp, uiVars, apiOut, authVars, accountVars, lastTitle,
                     formVars, dashVars>>

(***************************************************************************)
(* Agent orchestrator: process_user_message behind chat_endpoint.          *)
(* chat_endpoint is a coroutine of its own for every request and nothing   *)
(* serialises requests: the requests being served are the slots, and one   *)
(* step of a request runs from one await to the next.                      *)
(***************************************************************************)
UserMessage(m) ==
  [role |-> "user", content |-> Text(m), tool_calls |-> <<>>, name |-> None]

SystemMessage ==
  [role |-> "system", content |-> SYSTEM_PROMPT, tool_calls |-> <<>>, name |-> None]

AssistantToolMessage(calls) ==
  [role |-> "assistant", content |-> NoContent, tool_calls |-> calls, name |-> None]

ToolMessage(name, content) ==
  [role |-> "tool", content |-> content, tool_calls |-> <<>>, name |-> name]

\* ChatResponse(response=..., conversation_id=...): HTTP 200
ChatResponse(content, cid, failed) ==
  [status |-> 200, response |-> content, conversation_id |-> cid, failed |-> failed]

\* the requests the server may be serving at once
Slots == 1..MaxConcurrent

\* rows the request in slot s may still store
Need(s) ==
  CASE pc[s] \in {"load", "save_system"} -> 3
    [] pc[s] = "save_user" -> 2
    [] pc[s] = "save_calls" -> Len(pending[s]) + 2
    [] pc[s] \in {"tools", "save_tool"} -> Len(pending[s]) + 1
    [] pc[s] \in {"llm1", "llm2", "save_reply", "save_error"} -> 1
    [] OTHER -> 0

RECURSIVE Needs(_)
Needs(ss) ==
  IF ss = {} THEN 0
  ELSE LET s == CHOOSE x \in ss : TRUE IN Need(s) + Needs(ss \ {s})

\* the store has room for n more rows besides those the requests in flight
\* may still store
Room(n, max) == Len(store) + Needs(Slots) + n <= max

\* `await session.flush()` of save_message returned: the row the request in
\* slot s constructed is in the table
Flushed(s) ==
  /\ store' = save_message(store, saving[s])
  /\ turnIdx' = [turnIdx EXCEPT
                   ![s] = IF Len(store') > Len(store) THEN Append(@, Len(store')) ELSE @]

\* save_message up to its await: the message is constructed
Construct(s, role, content, toolCalls, name) ==
  /\ saving' = [saving EXCEPT
                  ![s] = ConversationMessage(req[s].conversation_id, req[s].user_id,
                                             role, content, toolCalls, name, clock + 1)]
  /\ clock' = clock + 1

\* chat_endpoint: a request arrives and process_user_message is entered, up
\* to `await load_conversation_history`
ChatReceive(u, c, m, max) ==
  /\ \E s \in Slots : pc[s] = "idle"
  /\ Room(3, max)
  /\ LET s == CHOOSE x \in Slots : pc[x] = "idle" /\ \A y \in Slots : pc[y] = "idle" => x <= y
     IN  /\ req' = [req EXCEPT ![s] = [conversation_id |-> c, user_id |-> u, message |-> m]]
         /\ ctx' = [ctx EXCEPT ![s] = <<>>]
         /\ turnIdx' = [turnIdx EXCEPT ![s] = <<>>]
         /\ turnCalls' = [turnCalls EXCEPT ![s] = <<>>]
         /\ pending' = [pending EXCEPT ![s] = <<>>]
         /\ saving' = [saving EXCEPT ![s] = NoRow]
         /\ llmCalls' = [llmCalls EXCEPT ![s] = 0]
         /\ attempts' = [attempts EXCEPT ![s] = 0]
         /\ pc' = [pc EXCEPT ![s] = "load"]
  /\ UNCHANGED <<webVars, store, clock, tasks, nextTaskId, lastTool, resp, restarts, cancels,
                 tresp, uiVars>>

\* Step 1: the history is loaded; the system prompt of a new conversation,
\* or else the user message, is added to the context and its save is begun
LoadHistory(s) ==
  /\ pc[s] = "load"
  /\ LET history == load_conversation_history(store, req[s].conversation_id)
     IN  IF history = <<>>
         THEN /\ ctx' = [ctx EXCEPT ![s] = <<SystemMessage>>]
              /\ Construct(s, "system", SYSTEM_PROMPT, <<>>, None)
              /\ pc' = [pc EXCEPT ![s] = "save_system"]
         ELSE /\ ctx' = [ctx EXCEPT ![s] = Append(history, UserMessage(req[s].message))]
              /\ Construct(s, "user", Text(req[s].message), <<>>, None)
              /\ pc' = [pc EXCEPT ![s] = "save_user"]
  /\ UNCHANGED <<webVars, store, tasks, nextTaskId, req, pending, turnIdx, turnCalls,
                 lastTool, resp, restarts, cancels, llmCalls, attempts, tresp, uiVars>>

\* the system prompt is stored; Step 2: the user message is added to the
\* context and its save is begun
SaveSystem(s) ==
  /\ pc[s] = "save_system"
  /\ Flushed(s)
  /\ ctx' = [ctx EXCEPT ![s] = Append(@, UserMessage(req[s].message))]
  /\ Construct(s, "user", Text(req[s].message), <<>>, None)
  /\ pc' = [pc EXCEPT ![s] = "save_user"]
  /\ UNCHANGED <<webVars, tasks, nextTaskId, req, pending, turnCalls, lastTool, resp,
                 restarts, cancels, llmCalls, attempts, tresp, uiVars>>

\* the user message is stored; Step 3: the first model call is issued
SaveUser(s) ==
  /\ pc[s] = "save_user"
  /\ Flushed(s)
  /\ saving' = [saving EXCEPT ![s] = NoRow]
  /\ llmCalls' = [llmCalls EXCEPT ![s] = 1]
  /\ attempts' = [attempts EXCEPT ![s] = 1]
  /\ pc' = [pc EXCEPT ![s] = "llm1"]
  /\ UNCHANGED <<webVars, clock, tasks, nextTaskId, req, ctx, pending, turnCalls,
                 lastTool, resp, restarts, cancels, tresp, uiVars>>

\* Step 4, else branch: the model answered without tool calls; the save of
\* the answer is begun
LLMRespondText(s, t) ==
  /\ pc[s] = "llm1"
  /\ Construct(s, "assistant", Text(t), <<>>, None)
  /\ pc' = [pc EXCEPT ![s] = "save_reply"]
  /\ UNCHANGED <<webVars, store, tasks, nextTaskId, req, ctx, pending, turnIdx,
                 turnCalls, lastTool, resp, restarts, cancels, llmCalls, attempts, tresp, uiVars>>

\* Step 4: the model requested tool calls; the save of the assistant message
\* carrying them is begun
LLMRespondTools(s, calls, max) ==
  /\ pc[s] = "llm1"
  /\ Room(Len(calls) + 1, max)
  /\ Construct(s, "assistant", NoContent, calls, None)
  /\ pending' = [pending EXCEPT ![s] = calls]
  /\ turnCalls' = [turnCalls EXCEPT ![s] = calls]
  /\ pc' = [pc EXCEPT ![s] = "save_calls"]
  /\ UNCHANGED <<webVars, store, tasks, nextTaskId, req, ctx, turnIdx, lastTool, resp,
                 restarts, cancels, llmCalls, attempts, tresp, uiVars>>

\* the final model call is issued as soon as one tool result is available
AfterTools_first_result(rest) == "llm2"

\* where process_user_message continues after one iteration: the loop takes
\* the next tool call; Step 5 follows once the loop is exhausted
AfterTools(rest) == IF rest = <<>> THEN "llm2" ELSE "tools"

\* the loop reaches a tool call: `json.loads(tool_call.function.arguments)`
\* raises on text that is not JSON, and `except Exception` begins the save
\* of the error text; otherwise execute_mcp_tool is awaited
EnterLoop(s, at) ==
  IF at = "tools" /\ ~Head(pending'[s]).arguments.parses
  THEN /\ Construct(s, "assistant", ErrorMessage("json_decode_error"), <<>>, None)
       /\ pc' = [pc EXCEPT ![s] = "save_error"]
       /\ UNCHANGED <<llmCalls, attempts>>
  ELSE /\ saving' = [saving EXCEPT ![s] = NoRow]
       /\ clock' = clock
       /\ pc' = [pc EXCEPT ![s] = at]
       /\ llmCalls' = [llmCalls EXCEPT ![s] = IF at = "llm2" THEN @ + 1 ELSE @]
       /\ attempts' = [attempts EXCEPT ![s] = IF at = "llm2" THEN 1 ELSE @]

\* the assistant message with the tool calls is stored and added to the
\* context; the loop over the tool calls is entered
SaveCalls(s) ==
  /\ pc[s] = "save_calls"
  /\ Flushed(s)
  /\ ctx' = [ctx EXCEPT ![s] = Append(@, AssistantToolMessage(turnCalls[s]))]
  /\ pending' = pending
  /\ EnterLoop(s, "tools")
  /\ UNCHANGED <<webVars, tasks, nextTaskId, req, turnCalls, lastTool, resp, restarts, cancels,
                 tresp, uiVars>>

\* `await execute_mcp_tool(...)` of one iteration of
\* `for tool_call in assistant_message.tool_calls`: the tool has run and the
\* save of its result is begun
ExecTool(s) ==
  /\ pc[s] = "tools"
  /\ pending[s] # <<>>
  /\ LET call   == Head(pending[s])
         args   == ToolArgs(call.arguments, req[s].user_id)
         result == execute_mcp_tool(tasks, nextTaskId, call.name, args)
     IN  /\ tasks' = IF call.name \in ToolNames
                     THEN ToolTasks(tasks, nextTaskId, call.name,
                                    args.user_id, args.task_id)
                     ELSE tasks
         /\ nextTaskId' = IF call.name = "create_task" /\ result.success
                          THEN nextTaskId + 1 ELSE nextTaskId
         /\ lastTool' = [caller |-> req[s].user_id, name |-> call.name,
                         user_id |-> args.user_id, task_id |-> args.task_id]
         /\ Construct(s, "tool", JsonDumps(result), <<>>, call.name)
  /\ pc' = [pc EXCEPT ![s] = "save_tool"]
  /\ UNCHANGED <<webVars, store, req, ctx, pending, turnIdx, turnCalls, resp, restarts, cancels,
                 llmCalls, attempts, tresp, uiVars>>

\* the tool result is stored and added to the context; the loop takes the
\* next tool call, or Step 5 issues the final model call
SaveTool(s) ==
  /\ pc[s] = "save_tool"
  /\ Flushed(s)
  /\ ctx' = [ctx EXCEPT ![s] = Append(@, ToolMessage(saving[s].name, saving[s].content))]
  /\ pending' = [pending EXCEPT ![s] = Tail(@)]
  /\ EnterLoop(s, AfterTools(Tail(pending[s])))
  /\ UNCHANGED <<webVars, tasks, nextTaskId, req, turnCalls, lastTool, resp, restarts, cancels,
                 tresp, uiVars>>

\* Step 5: the final reply after the tools ran; its save is begun
LLMRespondFinal(s, t) ==
  /\ pc[s] = "llm2"
  /\ Construct(s, "assistant", Text(t), <<>>, None)
  /\ pc' = [pc EXCEPT ![s] = "save_reply"]
  /\ UNCHANGED <<webVars, store, tasks, nextTaskId, req, ctx, pending, turnIdx,
                 turnCalls, lastTool, resp, restarts, cancels, llmCalls, attempts, tresp, uiVars>>

\* except Exception as e: the save of the error text as the assistant's
\* message is begun
HandleException(s, e) ==
  /\ Construct(s, "assistant", ErrorMessage(e), <<>>, None)
  /\ pc' = [pc EXCEPT ![s] = "save_error"]
  /\ UNCHANGED <<webVars, store, tasks, nextTaskId, req, ctx, pending, turnIdx,
                 turnCalls, lastTool, resp, restarts, cancels, llmCalls, attempts, tresp, uiVars>>

\* stop_after_attempt(3) of the retry decorator
StopAfterAttempt == 3

\* every failed attempt is followed by another one
Retries_always(e, n) == TRUE

\* whether another attempt follows attempt n of a model call that raised
\* e: process_user_message calls groq_client.chat.completions.create
\* directly inside its try block, not through call_groq_with_retry, so
\* whatever the call raises reaches `except Exception`
Retries(e, n) == FALSE

\* groq_client.chat.completions.create raises (either call)
LLMFail(s, e) ==
  /\ pc[s] \in {"llm1", "llm2"}
  /\ IF Retries(e, attempts[s])
     THEN /\ attempts' = [attempts EXCEPT ![s] = @ + 1]
          /\ UNCHANGED <<webVars, store, clock, saving, tasks, nextTaskId, pc, req, ctx,
                         pending, turnIdx, turnCalls, lastTool, resp, restarts, cancels, llmCalls,
                         tresp, uiVars>>
     ELSE HandleException(s, e)

\* process_user_message is left (it returned, or its coroutine was
\* cancelled): the request in slot s and everything it held are gone
Return(s) ==
  /\ pc' = [pc EXCEPT ![s] = "idle"]
  /\ req' = [req EXCEPT ![s] = NoReq]
  /\ ctx' = [ctx EXCEPT ![s] = <<>>]
  /\ pending' = [pending EXCEPT ![s] = <<>>]
  /\ turnCalls' = [turnCalls EXCEPT ![s] = <<>>]
  /\ saving' = [saving EXCEPT ![s] = NoRow]
  /\ llmCalls' = [llmCalls EXCEPT ![s] = 0]
  /\ attempts' = [attempts EXCEPT ![s] = 0]

\* the reply is stored and returned: ChatResponse with the model's text
SaveReply(s) ==
  /\ pc[s] = "save_reply"
  /\ store' = save_message(store, saving[s])
  /\ resp' = ChatResponse(saving[s].content, req[s].conversation_id, FALSE)
  /\ turnIdx' = [turnIdx EXCEPT ![s] = <<>>]
  /\ Return(s)
  /\ UNCHANGED <<webVars, clock, tasks, nextTaskId, lastTool, restarts, cancels, tresp, uiVars>>

\* the error text is stored and returned as the reply
SaveError(s) ==
  /\ pc[s] = "save_error"
  /\ store' = save_message(store, saving[s])
  /\ resp' = ChatResponse(saving[s].content, req[s].conversation_id, TRUE)
  /\ turnIdx' = [turnIdx EXCEPT ![s] = <<>>]
  /\ Return(s)
  /\ UNCHANGED <<webVars, clock, tasks, nextTaskId, lastTool, restarts, cancels, tresp, uiVars>>

\* the coroutine of a request is cancelled at the await it is suspended in
\* (the client went away): what it stored and what its tools did stays, and
\* no reply is produced
Cancel(s) ==
  /\ pc[s] # "idle"
  /\ cancels < MaxCancels
  /\ cancels' = cancels + 1
  /\ turnIdx' = [turnIdx EXCEPT ![s] = <<>>]
  /\ Return(s)
  /\ UNCHANGED <<webVars, store, clock, tasks, nextTaskId, lastTool, resp, restarts,
                 tresp, uiVars>>

\* the server process restarts between two requests: its memory is lost
Restart ==
  /\ \A s \in Slots : pc[s] = "idle"
  /\ resp.status # 0
  /\ restarts < MaxRestarts
  /\ restarts' = restarts + 1
  /\ ctx' = [s \in Slots |-> <<>>]
  /\ req' = [s \in Slots |-> NoReq]
  /\ pending' = [s \in Slots |-> <<>>]
  /\ UNCHANGED <<webVars, store, clock, cancels, saving, tasks, nextTaskId, pc, turnIdx,
                 turnCalls, lastTool, resp, llmCalls, attempts, tresp, uiVars>>

(***************************************************************************)
(* Task endpoints of the HTTP surface (owner taken from the bearer token)  *)
(***************************************************************************)
TaskResp(op, u, id, status, body) ==
  [op |-> op, caller |-> u, id |-> id, status |-> status, body |-> body]

\* 404 for a task that is absent or not owned by the caller
NotFound(op, u, id) == TaskResp(op, u, id, 404, <<>>)

\* 400 InvalidInput
InvalidInput(op, u, id) == TaskResp(op, u, id, 400, <<>>)

\* the untrimmed length is validated
ValidTitle_untrimmed(title) ==
  TitleLength(title) >= 1 /\ TitleLength(title) <= MaxTitleLength

\* title validation: 1 to 500 characters after trimming
ValidTitle(title) ==
  TitleLength(TitleTrim(title)) >= 1 /\ TitleLength(TitleTrim(title)) <= MaxTitleLength

\* Create(owner, title): trims and validates the title, inserts the row
CreateTask(u, title) ==
  /\ nextTaskId <= MaxTasks
  /\ lastTitle' = title
  /\ IF ValidTitle(title)
     THEN /\ tasks' = tasks \cup {Task(nextTaskId, u, TitleTrim(title), FALSE, nextTaskId)}
          /\ nextTaskId' = nextTaskId + 1
          /\ tresp' = TaskResp("create", u, nextTaskId, 201,
                                <<Task(nextTaskId, u, TitleTrim(title), FALSE, nextTaskId)>>)
     ELSE /\ tresp' = InvalidInput("create", u, 0)
          /\ UNCHANGED taskVars

\* POST /api/tasks
TaskCreate(u, title) ==
  /\ CreateTask(u, title)
  /\ UNCHANGED <<chatVars, uiVars, apiOut, authVars, accountVars, toolOut, formVars,
                 dashVars>>

\* GET /api/tasks
TaskList(u) ==
  /\ tresp' = TaskResp("list", u, 0, 200, TasksOf(tasks, u))
  /\ UNCHANGED <<webVars, chatVars, taskVars, uiVars>>

\* GET /api/tasks/{id}
TaskGet(u, id) ==
  /\ tresp' = IF TasksById(tasks, u, id) = {} THEN NotFound("get", u, id)
              ELSE TaskResp("get", u, id, 200, NewestFirst(TasksById(tasks, u, id)))
  /\ UNCHANGED <<webVars, chatVars, taskVars, uiVars>>

\* PUT /api/tasks/{id}
TaskUpdate(u, id, title) ==
  LET found   == TasksById(tasks, u, id)
      updated == {[t EXCEPT !.title = TitleTrim(title)] : t \in found}
  IN  /\ tasks' = IF ValidTitle(title) THEN (tasks \ found) \cup updated ELSE tasks
      /\ tresp' = IF found = {} THEN NotFound("update", u, id)
                  ELSE IF ~ValidTitle(title) THEN InvalidInput("update", u, id)
                  ELSE TaskResp("update", u, id, 200, NewestFirst(updated))
      /\ UNCHANGED <<webVars, chatVars, nextTaskId, uiVars>>

\* PATCH /api/tasks/{id}/toggle
TaskToggle(u, id) ==
  LET found   == TasksById(tasks, u, id)
      updated == {[t EXCEPT !.completed = ~t.completed] : t \in found}
  IN  /\ tasks' = (tasks \ found) \cup updated
      /\ tresp' = IF found = {} THEN NotFound("toggle", u, id)
                  ELSE TaskResp("toggle", u, id, 200, NewestFirst(updated))
      /\ UNCHANGED <<webVars, chatVars, nextTaskId, uiVars>>

\* DELETE /api/tasks/{id}
TaskDelete(u, id) ==
  LET found == TasksById(tasks, u, id)
  IN  /\ tasks' = tasks \ found
      /\ tresp' = IF found = {} THEN NotFound("delete", u, id)
                  ELSE TaskResp("delete", u, id, 204, <<>>)
      /\ UNCHANGED <<webVars, chatVars, nextTaskId, uiVars>>

(***************************************************************************)
(* Registration over the users table                                       *)
(***************************************************************************)
\* e-mail addresses a registration may carry
RegEmails == {"a@x.com", "A@x.com", "b@x.com"}

\* connections serving registrations concurrently
Connections == {1, 2}

\* LOWER(email)
Lower(email) == IF email = "A@x.com" THEN "a@x.com" ELSE email

User(id, email, hash) == [id |-> id, email |-> email, password_hash |-> hash]

\* refusedBy: what refused the request ("": nothing did)
RegRequest(at, email, password, status, refusedBy) ==
  [pc |-> at, email |-> email, password |-> password, status |-> status,
   refusedBy |-> refusedBy]

NoRegRequest == RegRequest("idle", "", "", 0, "")

\* UNIQUE (email) alone: an exact, case-sensitive match
EmailTaken_exact(us, email) == \E u \in us : u.email = email

\* CREATE UNIQUE INDEX idx_users_email ON users(LOWER(email)): a row with
\* the same LOWER(email) exists
EmailTaken(us, email) == \E u \in us : Lower(u.email) = Lower(email)

\* Register: the request arrives and the e-mail is looked up
\* (case-insensitive); a taken e-mail is answered 409 Conflict
RegisterLookup(c, email, password) ==
  /\ reg[c].pc \in {"idle", "done"}
  /\ reg' = [reg EXCEPT ![c] =
               IF EmailTaken(users, email)
               THEN RegRequest("done", email, password, 409, "lookup")
               ELSE RegRequest("insert", email, password, 0, "")]
  /\ UNCHANGED <<chatVars, taskVars, tresp, uiVars, apiOut, authVars, toolOut, lastTitle,
                 formVars, users, dashVars>>

\* Register: the INSERT; the unique index refuses a row whose LOWER(email)
\* is present, which is answered 409 Conflict
RegisterInsert(c) ==
  /\ reg[c].pc = "insert"
  /\ IF EmailTaken(users, reg[c].email)
     THEN /\ users' = users
          /\ reg' = [reg EXCEPT ![c].pc = "done", ![c].status = 409,
                                ![c].refusedBy = "index"]
     ELSE /\ users' = users \cup {User(Cardinality(users) + 1, reg[c].email,
                                        reg[c].password)}
          /\ reg' = [reg EXCEPT ![c].pc = "done", ![c].status = 200]
  /\ UNCHANGED <<chatVars, taskVars, tresp, uiVars, apiOut, authVars, toolOut, lastTitle,
                 formVars, dashVars>>

(***************************************************************************)
(* TaskForm of the dashboard                                               *)
(***************************************************************************)
\* the checks of TaskForm.handleSubmit on the title ("": it passes)
validateTitle(title) ==
  IF TitleTrim(title) = EmptyTitle THEN "Title is required"
  ELSE IF TitleLength(title) > MaxTitleLength THEN "Title must be 500 characters or less"
  ELSE ""

\* onChange of the title field; the field has maxLength={500} and stays
\* editable while the submit is awaited
FormSetTitle(title) ==
  /\ TitleLength(title) <= MaxTitleLength
  /\ title # formTitle
  /\ formTitle' = title
  /\ UNCHANGED <<chatVars, taskVars, tresp, uiVars, apiOut, authVars, accountVars, toolOut, lastTitle,
                 formErr, formPc, formData, formChecked, formResp, dashVars>>

\* TaskForm.handleSubmit up to `await onSubmit(data)`; the submit button is
\* disabled while loading
FormSubmit ==
  /\ formPc = "idle"
  /\ formErr' = validateTitle(formTitle)
  /\ formChecked' = formTitle
  /\ IF validateTitle(formTitle) # ""
     THEN UNCHANGED <<formPc, formData>>
     ELSE /\ formPc' = "awaiting"
          /\ formData' = TitleTrim(formTitle)
  /\ UNCHANGED <<chatVars, taskVars, tresp, uiVars, apiOut, authVars, accountVars, toolOut, lastTitle,
                 formTitle, formResp, dashVars>>

\* how onSubmit(data) ended: resolved, or rejected with an Error
FormResp(ok, message) == [ok |-> ok, message |-> message]

NoFormResp == FormResp(FALSE, "")

\* messages of the errors ApiClient.request throws when the request does
\* not reach the create handler or the handler fails: 401, 500 with an
\* empty body, no connection
RequestFailures == {"Not authenticated", "HTTP error! status: 500", "Failed to fetch"}

\* onSubmit (DashboardPage.handleCreateTask -> taskService.createTask):
\* the request of the form is served; failure = "": it reaches the create
\* handler, otherwise it is rejected with that message and nothing is stored
FormRequest(u, failure) ==
  /\ formPc = "awaiting"
  /\ formPc' = "answered"
  /\ IF failure = ""
     THEN /\ CreateTask(u, formData)
          /\ formResp' = IF ValidTitle(formData) THEN FormResp(TRUE, "")
                         ELSE FormResp(FALSE, "HTTP error! status: 400")
     ELSE /\ formResp' = FormResp(FALSE, failure)
          /\ UNCHANGED <<taskVars, tresp, lastTitle>>
  /\ UNCHANGED <<chatVars, uiVars, apiOut, authVars, accountVars, toolOut, formTitle,
                 formErr, formData, formChecked, dashVars>>

\* TaskForm.handleSubmit after `await onSubmit(data)`: the form resets, or
\* the catch block shows the message of the error; finally loading ends
FormCreate ==
  /\ formPc = "answered"
  /\ formPc' = "idle"
  /\ IF formResp.ok
     THEN formTitle' = EmptyTitle /\ formErr' = formErr
     ELSE formTitle' = formTitle /\ formErr' = formResp.message
  /\ UNCHANGED <<chatVars, taskVars, tresp, uiVars, apiOut, authVars, accountVars, toolOut,
                 lastTitle, formData, formChecked, formResp, dashVars>>

(***************************************************************************)
(* DashboardPage with its TaskList and TaskItems                           *)
(***************************************************************************)
\* the user signed in at the browser
DashUser == "A"

\* task requests the dashboard may have in flight at once
MaxInFlight == 2

\* requests one dashboard session sends
MaxRequests == 5

TaskIds == 1..MaxTasks

\* the title an edit submits
EditedTitle == Title(0, 2)

\* a request of the dashboard: `captured` is the `tasks` of the render whose
\* handler sent it; attached: the component instance whose handler awaits
\* it (TaskItem, TaskForm) is still mounted
Request(op, id, title, captured) ==
  [op |-> op, id |-> id, title |-> title, captured |-> captured, phase |-> "sent",
   ok |-> FALSE, result |-> <<>>, attached |-> TRUE]

NoneBusy == [id \in TaskIds |-> FALSE]

NoConfirm == [id |-> 0, accepted |-> FALSE]

Ids(list) == {list[i].id : i \in DOMAIN list}

\* the task table after the server handled request r of the signed-in user
ServerTasks(ts, nid, r) ==
  LET found == TasksById(ts, DashUser, r.id)
  IN  CASE r.op = "create" -> ts \cup {Task(nid, DashUser, TitleTrim(r.title), FALSE, nid)}
        [] r.op = "update" ->
             (ts \ found) \cup {[t EXCEPT !.title = TitleTrim(r.title)] : t \in found}
        [] r.op = "toggle" ->
             (ts \ found) \cup {[t EXCEPT !.completed = ~t.completed] : t \in found}
        [] r.op = "delete" -> ts \ found
        [] OTHER -> ts

\* the server's answer to request r: success, and the tasks in the body
ServerAnswer(ts, nid, r) ==
  LET found == TasksById(ts, DashUser, r.id)
      after == ServerTasks(ts, nid, r)
  IN  CASE r.op = "load" -> [ok |-> TRUE, result |-> TasksOf(ts, DashUser)]
        [] r.op = "create" ->
             [ok |-> TRUE, result |-> <<Task(nid, DashUser, TitleTrim(r.title), FALSE, nid)>>]
        [] r.op = "delete" -> [ok |-> found # {}, result |-> <<>>]
        [] OTHER -> [ok |-> found # {},
                     result |-> NewestFirst(TasksById(after, DashUser, r.id))]

\* tasks.map(t => t.id === updatedTask.id ? updatedTask : t)
MapReplace(list, updated) ==
  [i \in DOMAIN list |-> IF list[i].id = updated.id THEN updated ELSE list[i]]

\* tasks.filter(t => t.id !== taskId)
FilterOut(list, id) == SelectSeq(list, LAMBDA t : t.id # id)

\* the argument of setTasks in the handler that awaited r (a failed request
\* sets nothing: `current` stays)
TasksAfter(current, r) ==
  IF ~r.ok THEN current
  ELSE CASE r.op = "load" -> r.result
         [] r.op = "create" -> <<r.result[1]>> \o r.captured
         [] r.op = "delete" -> FilterOut(r.captured, r.id)
         [] OTHER -> MapReplace(r.captured, r.result[1])

\* the completion flags under which task id is listed
Completed(list, id) == {list[i].completed : i \in {j \in DOMAIN list : list[j].id = id}}

\* TaskList across a render: the TaskItem of task id stays mounted, with its
\* state, when the list is shown before and after (no loading indicator)
\* and the task stays in the same group (incomplete / completed)
KeepsItem(oldList, oldLoading, newList, newLoading, id) ==
  /\ ~oldLoading
  /\ ~newLoading
  /\ id \in Ids(oldList)
  /\ id \in Ids(newList)
  /\ Completed(oldList, id) = Completed(newList, id)

\* requests whose TaskItem is unmounted lose their component; keptIds are
\* the tasks whose TaskItem stays mounted
DetachItems(reqs, keptIds) ==
  [k \in DOMAIN reqs |->
     IF reqs[k].op \in {"toggle", "delete"} /\ reqs[k].id \notin keptIds
     THEN [reqs[k] EXCEPT !.attached = FALSE] ELSE reqs[k]]

\* requests whose TaskForm is unmounted lose their component
DetachForm(reqs) ==
  [k \in DOMAIN reqs |->
     IF reqs[k].op \in {"create", "update"}
     THEN [reqs[k] EXCEPT !.attached = FALSE] ELSE reqs[k]]

\* loadTasks up to `await taskService.getTasks()`: setLoading(true) makes
\* TaskList show the loading indicator in place of the TaskItems
loadTasks ==
  /\ Len(inflight) < MaxInFlight
  /\ sentCount < MaxRequests
  /\ sentCount' = sentCount + 1
  /\ dashLoading' = TRUE
  /\ dashError' = ""
  /\ isToggling' = NoneBusy
  /\ isDeleting' = NoneBusy
  /\ inflight' = Append(DetachItems(inflight, {}),
                        Request("load", 0, EmptyTitle, <<>>))
  /\ UNCHANGED <<dashTasks, showForm, editingTask, lastConfirm, requestFailed>>

\* the TaskItem of task id is on screen and can be clicked (the form, when
\* shown, covers the page)
ItemShown(id) == ~dashLoading /\ ~showForm /\ id \in Ids(dashTasks)

\* TaskItem.handleToggle up to the await in DashboardPage.handleToggleComplete;
\* the button is disabled while isToggling
ToggleClick(id) ==
  /\ ItemShown(id)
  /\ ~isToggling[id]
  /\ Len(inflight) < MaxInFlight
  /\ sentCount < MaxRequests
  /\ isToggling' = [isToggling EXCEPT ![id] = TRUE]
  /\ inflight' = Append(inflight, Request("toggle", id, EmptyTitle, dashTasks))
  /\ sentCount' = sentCount + 1
  /\ UNCHANGED <<chatVars, taskVars, tresp, uiVars, apiOut, authVars, toolOut, lastTitle,
                 formVars, accountVars, dashTasks, dashLoading, dashError, showForm,
                 editingTask, isDeleting, lastConfirm, requestFailed>>

\* the delete request is sent without asking
Confirmed_unasked(accepted) == TRUE

\* confirm('Are you sure you want to delete this task?')
Confirmed(accepted) == accepted

\* TaskItem.handleDelete up to the await in DashboardPage.handleDeleteTask;
\* the button is disabled while isDeleting
DeleteClick(id, accepted) ==
  /\ ItemShown(id)
  /\ ~isDeleting[id]
  /\ Len(inflight) < MaxInFlight
  /\ sentCount < MaxRequests
  /\ lastConfirm' = [id |-> id, accepted |-> accepted]
  /\ IF ~Confirmed(accepted)
     THEN UNCHANGED <<isDeleting, inflight, sentCount>>
     ELSE /\ isDeleting' = [isDeleting EXCEPT ![id] = TRUE]
          /\ inflight' = Append(inflight, Request("delete", id, EmptyTitle, dashTasks))
          /\ sentCount' = sentCount + 1
  /\ UNCHANGED <<chatVars, taskVars, tresp, uiVars, apiOut, authVars, toolOut, lastTitle,
                 formVars, accountVars, dashTasks, dashLoading, dashError, showForm,
                 editingTask, isToggling, requestFailed>>

\* the New Task button (id = 0) or the edit control of a TaskItem: a fresh
\* TaskForm is shown
OpenForm(id) ==
  /\ ~showForm
  /\ id # 0 => ItemShown(id)
  /\ showForm' = TRUE
  /\ editingTask' = id
  /\ formPc' = "idle"
  /\ formErr' = ""
  /\ UNCHANGED <<chatVars, taskVars, tresp, uiVars, apiOut, authVars, toolOut, lastTitle,
                 accountVars, formTitle, formData, formChecked, formResp, dashTasks, dashLoading,
                 dashError, isToggling, isDeleting, inflight, lastConfirm, requestFailed,
                 sentCount>>

\* onCancel of the form (the Cancel and Close buttons, a click beside it)
CancelForm ==
  /\ showForm
  /\ showForm' = FALSE
  /\ editingTask' = 0
  /\ formPc' = "idle"
  /\ formErr' = ""
  /\ inflight' = DetachForm(inflight)
  /\ UNCHANGED <<chatVars, taskVars, tresp, uiVars, apiOut, authVars, toolOut, lastTitle,
                 accountVars, formTitle, formData, formChecked, formResp, dashTasks, dashLoading,
                 dashError, isToggling, isDeleting, lastConfirm, requestFailed,
                 sentCount>>

\* TaskForm.handleSubmit with a valid title, up to the await in
\* DashboardPage.handleCreateTask / handleUpdateTask
DashFormSubmit ==
  /\ showForm
  /\ formPc = "idle"
  /\ Len(inflight) < MaxInFlight
  /\ sentCount < MaxRequests
  /\ formPc' = "awaiting"
  /\ formErr' = ""
  /\ inflight' = Append(inflight,
                        IF editingTask = 0
                        THEN Request("create", 0, Title(0, 1), dashTasks)
                        ELSE Request("update", editingTask, EditedTitle, dashTasks))
  /\ sentCount' = sentCount + 1
  /\ UNCHANGED <<chatVars, taskVars, tresp, uiVars, apiOut, authVars, toolOut, lastTitle,
                 accountVars, formTitle, formData, formChecked, formResp, dashTasks, dashLoading,
                 dashError, showForm, editingTask, isToggling, isDeleting, lastConfirm,
                 requestFailed>>

\* the server handles the i-th request in flight
ServerHandles(i) ==
  /\ i \in DOMAIN inflight
  /\ inflight[i].phase = "sent"
  /\ inflight[i].op = "create" => nextTaskId <= MaxTasks
  /\ LET answer == ServerAnswer(tasks, nextTaskId, inflight[i])
     IN  inflight' = [inflight EXCEPT ![i].phase = "answered", ![i].ok = answer.ok,
                                      ![i].result = answer.result]
  /\ tasks' = ServerTasks(tasks, nextTaskId, inflight[i])
  /\ nextTaskId' = IF inflight[i].op = "create" THEN nextTaskId + 1 ELSE nextTaskId
  /\ UNCHANGED <<chatVars, tresp, uiVars, apiOut, authVars, toolOut, lastTitle, formVars,
                 accountVars, dashTasks, dashLoading, dashError, showForm, editingTask,
                 isToggling, isDeleting, lastConfirm, requestFailed, sentCount>>

\* the answer to the i-th request arrives: the handler that awaited it runs
\* to its end (loadTasks, handleCreateTask, handleUpdateTask,
\* handleToggleComplete, handleDeleteTask, and the finally block of the
\* TaskItem or the rest of TaskForm.handleSubmit)
ClientReceives(i) ==
  /\ i \in DOMAIN inflight
  /\ inflight[i].phase = "answered"
  /\ LET r == inflight[i]
         newTasks == TasksAfter(dashTasks, r)
         newLoading == IF r.op = "load" THEN FALSE ELSE dashLoading
         formDone == r.ok /\ r.op \in {"create", "update"}
         kept(id) == KeepsItem(dashTasks, dashLoading, newTasks, newLoading, id)
     IN  /\ dashTasks' = newTasks
         /\ dashLoading' = newLoading
         /\ dashError' = IF r.ok \/ r.op \in {"create", "update"} THEN dashError
                         ELSE "Request failed"
         /\ requestFailed' = (requestFailed \/ ~r.ok)
         /\ isToggling' = [id \in TaskIds |->
                             /\ kept(id)
                             /\ isToggling[id]
                             /\ ~(r.op = "toggle" /\ r.id = id /\ r.attached)]
         /\ isDeleting' = [id \in TaskIds |->
                             /\ kept(id)
                             /\ isDeleting[id]
                             /\ ~(r.op = "delete" /\ r.id = id /\ r.attached)]
         /\ showForm' = IF formDone THEN FALSE ELSE showForm
         /\ editingTask' = IF r.ok /\ r.op = "update" THEN 0 ELSE editingTask
         /\ formPc' = IF formDone \/ (r.op \in {"create", "update"} /\ r.attached)
                      THEN "idle" ELSE formPc
         /\ formErr' = IF ~r.ok /\ r.op \in {"create", "update"} /\ r.attached
                       THEN "Failed to save task" ELSE formErr
         /\ inflight' = LET rest == DetachItems(Remove(inflight, i), {id \in TaskIds : kept(id)})
                        IN  IF formDone THEN DetachForm(rest) ELSE rest
  /\ UNCHANGED <<chatVars, taskVars, tresp, uiVars, apiOut, authVars, toolOut, lastTitle,
                 accountVars, formTitle, formData, formChecked, formResp, lastConfirm, sentCount>>

\* the widget reloads nothing
RefreshTasks_never(v, outcome) == UNCHANGED dashVars

\* what a chat view does about the task list when a send has ended: the
\* widget calls loadTasks() at the end of its try block
RefreshTasks(v, outcome) ==
  IF v = "widget" /\ outcome = "ok" THEN loadTasks ELSE UNCHANGED dashVars

(***************************************************************************)
(* Chat views of the web client: ChatPage and the DashboardPage widget     *)
(***************************************************************************)
Views == {"page", "widget"}

\* what the user may have typed
Inputs == {"", " ", "m1", " m1"}

\* String.prototype.trim
Trim(t) == CASE t = " " -> "" [] t = " m1" -> "m1" [] OTHER -> t

\* conversation ids the server hands out
ServerConvIds == {1, 2}

ClientErrors == {"Failed to send message", "Not authenticated"}

Bubble(role, content) == [role |-> role, content |-> content]

\* a message as GET /api/chat/conversations/{id}/messages returns it
ServerMessage(id, role, content) == [id |-> id, role |-> role, content |-> content]

\* transcripts the server may return for the latest conversation
Histories ==
  {<<>>, <<ServerMessage(1, "user", "h1"), ServerMessage(2, "assistant", "h2")>>}

\* conversationMessages.map(msg => ({role: msg.role, content: msg.content}))
Format(msgs) == [i \in DOMAIN msgs |-> Bubble(msgs[i].role, msgs[i].content)]

\* prev.slice(0, -1)
DropLast(s) == IF s = <<>> THEN <<>> ELSE SubSeq(s, 1, Len(s) - 1)

\* onChange of the input field; the field is disabled while loading
TypeInput(t) ==
  /\ ~loading
  /\ t # input
  /\ input' = t
  /\ lastOutcome' = None
  /\ UNCHANGED <<webVars, chatVars, taskVars, tresp, view, messages, conversationId, loading,
                 error, sendPc, sendConv, histPc, histConv, expected, submitted,
                 chatInFlight, ignored, firstConv>>

\* the handler has no early return
CanSubmit_always(text, busy) == TRUE

\* `if (!input.trim() || loading) return;`: the handler goes on
CanSubmit(text, busy) == Trim(text) # "" /\ ~busy

\* handleSendMessage up to `await chatService.sendMessage(...)`, or up to
\* its early return
Submit ==
  IF ~CanSubmit(input, loading)
  THEN /\ ignored' = TRUE
       /\ UNCHANGED <<webVars, chatVars, taskVars, tresp, view, messages, input,
                      conversationId, loading, error, sendPc, sendConv, histPc, histConv,
                      expected, submitted, lastOutcome, chatInFlight, firstConv>>
  ELSE /\ Len(messages) + 2 <= MaxTranscript
       /\ view = "widget" => sentCount < MaxRequests
       /\ sentCount' = IF view = "widget" THEN sentCount + 1 ELSE sentCount
       /\ input' = ""
       /\ error' = ""
       /\ messages' = Append(messages, Bubble("user", Trim(input)))
       /\ loading' = TRUE
       /\ sendPc' = "awaiting"
       /\ sendConv' = conversationId
       /\ expected' = messages
       /\ submitted' = input
       /\ lastOutcome' = None
       /\ chatInFlight' = chatInFlight + 1
       /\ ignored' = FALSE
       /\ UNCHANGED <<apiOut, authVars, toolOut, lastTitle, formVars, accountVars,
                      dashTasks, dashLoading, dashError, showForm, editingTask,
                      isToggling, isDeleting, inflight, lastConfirm, requestFailed,
                      chatVars, taskVars, tresp, view, conversationId, histPc, histConv,
                      firstConv>>

\* the request resolved: the try block after the await, then finally
SendResolved(cid, text) ==
  /\ sendPc = "awaiting"
  /\ sendConv # 0 => cid = sendConv
  /\ conversationId' = IF sendConv = 0 THEN cid ELSE conversationId
  /\ messages' = Append(messages, Bubble("assistant", text))
  /\ loading' = FALSE
  /\ sendPc' = "idle"
  /\ expected' = Append(messages, Bubble("assistant", text))
  /\ lastOutcome' = "ok"
  /\ chatInFlight' = chatInFlight - 1
  /\ firstConv' = IF firstConv = 0 THEN cid ELSE firstConv
  /\ RefreshTasks(view, "ok")
  /\ UNCHANGED <<apiOut, authVars, toolOut, lastTitle, formVars, accountVars, chatVars,
                 taskVars, tresp, view, input, error, sendConv, histPc, histConv, submitted,
                 ignored>>

\* the request threw: the catch block, then finally
SendRejected(err) ==
  /\ sendPc = "awaiting"
  /\ error' = err
  /\ messages' = DropLast(messages)
  /\ loading' = FALSE
  /\ sendPc' = "idle"
  /\ lastOutcome' = "failed"
  /\ chatInFlight' = chatInFlight - 1
  /\ RefreshTasks(view, "failed")
  /\ UNCHANGED <<apiOut, authVars, toolOut, lastTitle, formVars, accountVars, chatVars,
                 taskVars, tresp, view, input, conversationId, sendConv, histPc, histConv,
                 expected, submitted, ignored, firstConv>>

\* while the widget's chat request is being served, a tool of the agent
\* creates a task for the caller
ChatToolCreates ==
  /\ view = "widget"
  /\ sendPc = "awaiting"
  /\ nextTaskId <= MaxTasks
  /\ tasks' = ToolTasks(tasks, nextTaskId, "create_task", DashUser, 0)
  /\ nextTaskId' = nextTaskId + 1
  /\ UNCHANGED <<webVars, chatVars, tresp, uiVars>>

\* loadConversationHistory: getConversations resolved with a latest conversation
HistoryConversations(cid) ==
  /\ view = "page"
  /\ histPc = "conversations"
  /\ conversationId' = cid
  /\ histConv' = cid
  /\ histPc' = "messages"
  /\ UNCHANGED <<webVars, chatVars, taskVars, tresp, view, messages, input, loading, error,
                 sendPc, sendConv, expected, submitted, lastOutcome, chatInFlight,
                 ignored, firstConv>>

\* loadConversationHistory: getConversations resolved with no conversation
HistoryNoConversation ==
  /\ view = "page"
  /\ histPc = "conversations"
  /\ histPc' = "done"
  /\ UNCHANGED <<webVars, chatVars, taskVars, tresp, view, messages, input, conversationId,
                 loading, error, sendPc, sendConv, histConv, expected, submitted,
                 lastOutcome, chatInFlight, ignored, firstConv>>

\* loadConversationHistory: getConversationMessages resolved
HistoryMessages(h) ==
  /\ view = "page"
  /\ histPc = "messages"
  /\ messages' = Format(h)
  /\ expected' = Format(h)
  /\ histPc' = "done"
  /\ UNCHANGED <<webVars, chatVars, taskVars, tresp, view, input, conversationId, loading, error,
                 sendPc, sendConv, histConv, submitted, lastOutcome, chatInFlight,
                 ignored, firstConv>>

\* loadConversationHistory: either request threw; the catch block only logs
HistoryFailed ==
  /\ view = "page"
  /\ histPc \in {"conversations", "messages"}
  /\ histPc' = "failed"
  /\ UNCHANGED <<webVars, chatVars, taskVars, tresp, view, messages, input, conversationId,
                 loading, error, sendPc, sendConv, histConv, expected, submitted,
                 lastOutcome, chatInFlight, ignored, firstConv>>

(***************************************************************************)
(* HTTP client of the web client: ApiClient.request                        *)
(***************************************************************************)
\* HTTP statuses the server answers with
Statuses == {200, 201, 204, 400, 401, 404, 409, 500}

\* response.ok
Ok(status) == status >= 200 /\ status <= 299

\* a response body: parses = FALSE is a body response.json() rejects; a
\* field that is absent is ""
Body(parses, detail, message, err) ==
  [parses |-> parses, detail |-> detail, message |-> message, error |-> err]

EmptyBody == Body(TRUE, "", "", "")

Bodies ==
  {Body(p, d, m, e) : p \in BOOLEAN, d \in {"", "detail text"},
                      m \in {"", "message text"}, e \in {"", "error text"}}

\* tokens a caller passes to the client ("": none)
Tokens == {"", "tokA", "tokB"}

\* `HTTP error! status: ${response.status}`
HttpErrorMessage(status) == "HTTP error! status: " \o ToString(status)

\* headers['Authorization'] ("": header not set)
Authorization(token) == IF token # "" THEN "Bearer " \o token ELSE ""

ApiOutcome(status, body, auth, kind, message, data) ==
  [status |-> status, body |-> body, authorization |-> auth, kind |-> kind,
   message |-> message, data |-> data]

NoApiOutcome == ApiOutcome(0, EmptyBody, "", None, "", EmptyBody)

\* the error message built for a response that is not ok
ErrorMessageOf(status, body) ==
  LET data == IF body.parses THEN body ELSE EmptyBody
  IN  IF data.detail # "" THEN data.detail
      ELSE IF data.message # "" THEN data.message
      ELSE HttpErrorMessage(status)

\* ApiClient.request, fetch having resolved with (status, body)
request(status, body, token) ==
  IF status = 204 THEN ApiOutcome(status, body, Authorization(token), "return", "", EmptyBody)
  ELSE IF ~Ok(status)
       THEN ApiOutcome(status, body, Authorization(token), "throw",
                       ErrorMessageOf(status, body), EmptyBody)
  ELSE IF ~body.parses
       THEN ApiOutcome(status, body, Authorization(token), "throw", "SyntaxError", EmptyBody)
  ELSE ApiOutcome(status, body, Authorization(token), "return", "", body)

\* a call of the client that the server answers
ApiRequest(status, body, token) ==
  /\ apiOut' = request(status, body, token)
  /\ UNCHANGED <<chatVars, taskVars, tresp, uiVars, authVars, backVars>>

\* a call of the client during which fetch rejects (network failure)
ApiRequestFetchFails(token) ==
  /\ apiOut' = ApiOutcome(0, EmptyBody, Authorization(token), "throw", "Failed to fetch",
                          EmptyBody)
  /\ UNCHANGED <<chatVars, taskVars, tresp, uiVars, authVars, backVars>>

(***************************************************************************)
(* Session of the web client: token storage, AuthService, the services'   *)
(* token check, the sign-in form and the mounting of protected pages       *)
(***************************************************************************)
\* tokens the server issues
IssuedTokens == {"tokA", "tokB"}

\* the fields of a successful answer that carry the token: access_token, or
\* token alone
AnswerTokens ==
  {<<t, "">> : t \in IssuedTokens} \cup {<<"", t>> : t \in IssuedTokens}

UserObjects == {"userA", "userB"}

Paths == {"/", "/signin", "/signup", "/dashboard", "/chat"}

Emails == {"", "a@x.com"}

Passwords == {"", "Passw0rd"}

AuthErrors == {"Invalid credentials", "Email already registered"}

\* methods of TaskService and ChatService
ServiceMethods ==
  {"getTasks", "createTask", "updateTask", "toggleComplete", "deleteTask",
   "sendMessage", "getConversations", "getConversationMessages"}

\* the body of a successful /api/auth/signin or /api/auth/signup answer: the
\* backend returns access_token, not token ("": field absent)
AuthResponse(op, ok, accessToken, token, user) ==
  [op |-> op, ok |-> ok, access_token |-> accessToken, token |-> token, user |-> user]

NoAuthResponse == AuthResponse(None, FALSE, "", "", "")

\* the value AuthService hands to tokenStorage.setToken
StoredToken(response) == response.access_token

\* tokenStorage.setToken: localStorage.setItem stores its value as a string,
\* an undefined one ("": the field was absent) as the string 'undefined'
setToken(token) == IF token = "" THEN "undefined" ELSE token

\* userStorage.setUser: localStorage.setItem of JSON.stringify(user), which
\* is undefined for an undefined user and so stored as 'undefined'
setUser(user) == IF user = "" THEN "undefined" ELSE user

\* AuthService.isAuthenticated: !!this.getToken()
isAuthenticated(token) == token # ""

\* what a service method does with the stored token before any request
getToken_unchecked(token) == [throws |-> FALSE, token |-> token]

\* TaskService.getToken (ChatService inlines the same check): throws
\* 'Not authenticated' when no token is stored
getToken(token) == [throws |-> token = "", token |-> token]

ServiceCall(method, kind, auth, stored, wasSignedOut) ==
  [method |-> method, kind |-> kind, authorization |-> auth, stored |-> stored,
   signedOut |-> wasSignedOut]

NoServiceCall == ServiceCall(None, None, "", "", FALSE)

\* a service method: the token check, then apiClient.get/post/... with the token
CallService(method) ==
  LET t == getToken(auth_token)
  IN  IF t.throws
      THEN ServiceCall(method, "not_authenticated", "", auth_token, signedOut)
      ELSE ServiceCall(method, "sent", Authorization(t.token), auth_token, signedOut)

\* any handler of a page calls a service method
ServiceRequest(method) ==
  /\ svc' = CallService(method)
  /\ UNCHANGED <<chatVars, taskVars, tresp, uiVars, backVars, apiOut, auth_token, auth_user,
                 tokenExpired, route, pagePc, rendered, authPc, authPending, lastAuth, formError,
                 signedOut, mw>>

\* const protectedRoutes
protectedRoutes == {"/dashboard"}

\* const publicRoutes
publicRoutes == {"/signin", "/signup"}

\* pathname.startsWith(route): of the paths of the model none properly
\* extends another but for "/"
StartsWith(pathname, prefix) == pathname = prefix \/ prefix = "/"

\* NextResponse.next() / NextResponse.redirect(location)
NextResponse(protected, public, action, location) ==
  [isProtectedRoute |-> protected, isPublicRoute |-> public, action |-> action,
   location |-> location]

\* middleware(request): every branch lets the request through
middleware(pathname) ==
  LET isProtectedRoute == \E r \in protectedRoutes : StartsWith(pathname, r)
      isPublicRoute == \E r \in publicRoutes : StartsWith(pathname, r)
  IN  IF isProtectedRoute THEN NextResponse(isProtectedRoute, isPublicRoute, "next", pathname)
      ELSE IF isPublicRoute THEN NextResponse(isProtectedRoute, isPublicRoute, "next", pathname)
      ELSE NextResponse(isProtectedRoute, isPublicRoute, "next", pathname)

\* sign-in / sign-up requests the browser may have pending at once
MaxAuthPending == 2

\* a request sent by the handleSubmit of a form; attached: the page
\* instance whose handler awaits it is still mounted
AuthRequest(op) == [op |-> op, attached |-> TRUE]

\* the page on screen is unmounted: the handlers still awaiting belong to
\* no mounted instance
Unmounted(reqs) == [k \in DOMAIN reqs |-> [reqs[k] EXCEPT !.attached = FALSE]]

\* the user opens a path: the request passes the middleware, then the page
\* mounts; a form page mounts with its useState defaults
Navigate(path) ==
  /\ path # route
  /\ mw' = [pathname |-> path, signedIn |-> isAuthenticated(auth_token),
            response |-> middleware(path)]
  /\ route' = IF middleware(path).action = "redirect"
              THEN middleware(path).location ELSE path
  /\ pagePc' = "render"
  /\ rendered' = FALSE
  /\ authPc' = "idle"
  /\ formError' = ""
  /\ authPending' = Unmounted(authPending)
  /\ UNCHANGED <<chatVars, taskVars, tresp, uiVars, backVars, apiOut, auth_token, auth_user,
                 tokenExpired, lastAuth, svc, signedOut>>

\* ChatPage: the first render returns the chat content unconditionally
ChatPageRender ==
  /\ route = "/chat"
  /\ pagePc = "render"
  /\ rendered' = TRUE
  /\ pagePc' = "effects"
  /\ UNCHANGED <<chatVars, taskVars, tresp, uiVars, backVars, apiOut, auth_token, auth_user,
                 tokenExpired, route, authPc, authPending, lastAuth, formError, svc, signedOut, mw>>

\* ChatPage: the mount effects: redirect when not authenticated, otherwise
\* start loadConversationHistory (chatService.getConversations)
ChatPageEffects ==
  /\ route = "/chat"
  /\ pagePc = "effects"
  /\ IF ~isAuthenticated(auth_token)
     THEN /\ route' = "/signin"
          /\ pagePc' = "render"
          /\ rendered' = FALSE
          /\ svc' = svc
     ELSE /\ svc' = CallService("getConversations")
          /\ pagePc' = "mounted"
          /\ UNCHANGED <<route, rendered, mw>>
  /\ UNCHANGED <<chatVars, taskVars, tresp, uiVars, backVars, apiOut, auth_token, auth_user,
                 tokenExpired, authPc, authPending, lastAuth, formError, signedOut, mw>>

\* DashboardPage inside AuthGuard: the guard renders its children only with
\* a valid stored token and redirects to sign-in otherwise; the mount effect
\* of the page calls loadTasks (taskService.getTasks)
DashboardMount ==
  /\ route = "/dashboard"
  /\ pagePc = "render"
  /\ svc' = CallService("getTasks")
  /\ IF auth_token # "" /\ ~tokenExpired
     THEN /\ rendered' = TRUE
          /\ pagePc' = "mounted"
          /\ route' = route
     ELSE /\ route' = "/signin"
          /\ pagePc' = "render"
          /\ rendered' = FALSE
  /\ UNCHANGED <<chatVars, taskVars, tresp, uiVars, backVars, apiOut, auth_token, auth_user,
                 tokenExpired, authPc, authPending, lastAuth, formError, signedOut, mw>>

\* the expiry time of the stored token passes
TokenExpires ==
  /\ auth_token # ""
  /\ ~tokenExpired
  /\ tokenExpired' = TRUE
  /\ UNCHANGED <<chatVars, taskVars, tresp, uiVars, backVars, apiOut, auth_token, auth_user,
                 route, pagePc, rendered, authPc, authPending, lastAuth, formError, svc, signedOut, mw>>

\* AuthService.signout, then the redirect of the page's sign-out handler
\* (DashboardPage.handleSignout: '/', ChatPage.handleSignOut: '/signin')
Signout ==
  /\ route \in {"/dashboard", "/chat"}
  /\ rendered
  /\ auth_token' = ""
  /\ auth_user' = ""
  /\ tokenExpired' = FALSE
  /\ signedOut' = TRUE
  /\ route' = IF route = "/dashboard" THEN "/" ELSE "/signin"
  /\ pagePc' = "render"
  /\ rendered' = FALSE
  /\ UNCHANGED <<chatVars, taskVars, tresp, uiVars, backVars, apiOut, authPc, authPending,
                 lastAuth,
                 formError, svc, mw>>

\* handleSubmit of the form on screen up to `await authService.signin(...)`;
\* the submit button is disabled while loading
AuthSubmit(op, email, password) ==
  /\ route = (IF op = "signin" THEN "/signin" ELSE "/signup")
  /\ authPc = "idle"
  /\ IF email = "" \/ password = ""
     THEN /\ formError' = "Email and password are required"
          /\ UNCHANGED <<authPc, authPending>>
     ELSE /\ Len(authPending) < MaxAuthPending
          /\ formError' = ""
          /\ authPc' = op
          /\ authPending' = Append(authPending, AuthRequest(op))
  /\ UNCHANGED <<chatVars, taskVars, tresp, uiVars, backVars, apiOut, auth_token, auth_user,
                 tokenExpired, route, pagePc, rendered, lastAuth, svc, signedOut, mw>>

\* a pending request resolved: AuthService stores the token and the user,
\* then the handler that awaited it calls router.push('/dashboard'), which
\* replaces the page on screen unless it is the dashboard already
AuthResolved(op, response) ==
  \E i \in DOMAIN authPending :
    /\ authPending[i].op = op
    /\ response.op = op
    /\ lastAuth' = response
    /\ auth_token' = setToken(StoredToken(response))
    /\ auth_user' = setUser(response.user)
    /\ tokenExpired' = FALSE
    /\ signedOut' = FALSE
    /\ route' = "/dashboard"
    /\ IF route = "/dashboard"
       THEN /\ authPending' = Remove(authPending, i)
            /\ UNCHANGED <<pagePc, rendered, authPc, formError>>
       ELSE /\ pagePc' = "render"
            /\ rendered' = FALSE
            /\ authPc' = "idle"
            /\ formError' = ""
            /\ authPending' = Unmounted(Remove(authPending, i))
    /\ UNCHANGED <<chatVars, taskVars, tresp, uiVars, backVars, apiOut, svc, mw>>

\* a pending request threw: AuthService rethrows; the form shows the
\* message and stops loading when its page instance is still mounted
AuthRejected(op, message) ==
  \E i \in DOMAIN authPending :
    /\ authPending[i].op = op
    /\ lastAuth' = AuthResponse(op, FALSE, "", "", "")
    /\ authPending' = Remove(authPending, i)
    /\ IF authPending[i].attached
       THEN formError' = message /\ authPc' = "idle"
       ELSE UNCHANGED <<formError, authPc>>
    /\ UNCHANGED <<chatVars, taskVars, tresp, uiVars, backVars, apiOut, auth_token, auth_user,
                   tokenExpired, route, pagePc, rendered, svc, signedOut, mw>>

\* SigninPage.handleSubmit
SigninSubmit(email, password) == AuthSubmit("signin", email, password)

SigninResolved(t, u) == AuthResolved("signin", AuthResponse("signin", TRUE, t[1], t[2], u))

SigninRejected(message) == AuthRejected("signin", message)

\* the sign-up form
SignupSubmit(email, password) == AuthSubmit("signup", email, password)

SignupResolved(t, u) == AuthResolved("signup", AuthResponse("signup", TRUE, t[1], t[2], u))

SignupRejected(message) == AuthRejected("signup", message)

\* DashboardPage at its first render (useState defaults), with the
\* requests its mount effect has sent
InitDash(sent) ==
  /\ dashTasks = <<>>
  /\ dashLoading = TRUE
  /\ dashError = ""
  /\ showForm = FALSE
  /\ editingTask = 0
  /\ isToggling = NoneBusy
  /\ isDeleting = NoneBusy
  /\ inflight = sent
  /\ lastConfirm = NoConfirm
  /\ requestFailed = FALSE
  /\ sentCount = Len(sent)

\* the browser apart from the dashboard: no session, the landing page
InitSession ==
  /\ apiOut = NoApiOutcome
  /\ auth_token = ""
  /\ auth_user = ""
  /\ tokenExpired = FALSE
  /\ route = "/"
  /\ pagePc = "render"
  /\ rendered = FALSE
  /\ authPc = "idle"
  /\ authPending = <<>>
  /\ lastAuth = NoAuthResponse
  /\ formError = ""
  /\ svc = NoServiceCall
  /\ signedOut = FALSE
  /\ mw = [pathname |-> "/", signedIn |-> FALSE, response |-> middleware("/")]
  /\ toolOut = NoToolOut
  /\ lastTitle = EmptyTitle
  /\ formTitle = EmptyTitle
  /\ formErr = ""
  /\ formPc = "idle"
  /\ formData = EmptyTitle
  /\ formChecked = EmptyTitle
  /\ formResp = NoFormResp
  /\ users = {}
  /\ reg = [c \in Connections |-> NoRegRequest]

\* a browser that holds no session, showing the landing page
InitWeb == InitSession /\ InitDash(<<>>)

(***************************************************************************)
(* Specifications                                                          *)
(***************************************************************************)
vars == <<store, clock, tasks, nextTaskId, pc, req, ctx, pending, saving, turnIdx,
          turnCalls, lastTool, resp, restarts, cancels, llmCalls, attempts, tresp,
          uiVars, webVars>>

\* the chat endpoint with the rows st in its table, no request being served
InitChat(st) ==
  /\ store = st
  /\ clock = Len(st)
  /\ pc = [s \in Slots |-> "idle"]
  /\ req = [s \in Slots |-> NoReq]
  /\ ctx = [s \in Slots |-> <<>>]
  /\ pending = [s \in Slots |-> <<>>]
  /\ saving = [s \in Slots |-> NoRow]
  /\ turnIdx = [s \in Slots |-> <<>>]
  /\ turnCalls = [s \in Slots |-> <<>>]
  /\ lastTool = NoTool
  /\ resp = NoResp
  /\ restarts = 0
  /\ cancels = 0
  /\ llmCalls = [s \in Slots |-> 0]
  /\ attempts = [s \in Slots |-> 0]
  /\ tresp = NoTaskResp

\* the chat endpoint after start: no message stored, no request being served
InitChatServer == InitChat(<<>>)

\* the server after start: empty tables, no request being served
InitServer ==
  /\ InitChatServer
  /\ tasks = {}
  /\ nextTaskId = 1

\* a chat view after mount: the chat page has started loading its history,
\* the dashboard widget loads none
InitView(v) ==
  /\ view = v
  /\ messages = <<>>
  /\ input = ""
  /\ conversationId = 0
  /\ loading = FALSE
  /\ error = ""
  /\ sendPc = "idle"
  /\ sendConv = 0
  /\ histPc = IF v = "page" THEN "conversations" ELSE "done"
  /\ histConv = 0
  /\ expected = <<>>
  /\ submitted = ""
  /\ lastOutcome = None
  /\ chatInFlight = 0
  /\ ignored = FALSE
  /\ firstConv = 0

Init == InitServer /\ InitView("page") /\ InitWeb

\* the chat endpoint serving two users and two conversations
Next ==
  \/ \E u \in Users, c \in ConvIds, m \in UserTexts : ChatReceive(u, c, m, MaxMsgs)
  \/ \E s \in Slots : LoadHistory(s)
  \/ \E s \in Slots : SaveSystem(s)
  \/ \E s \in Slots : SaveUser(s)
  \/ \E s \in Slots, t \in LLMTexts : LLMRespondText(s, t)
  \/ \E s \in Slots, calls \in ToolCallLists : LLMRespondTools(s, calls, MaxMsgs)
  \/ \E s \in Slots : SaveCalls(s)
  \/ \E s \in Slots : ExecTool(s)
  \/ \E s \in Slots : SaveTool(s)
  \/ \E s \in Slots, t \in LLMTexts : LLMRespondFinal(s, t)
  \/ \E s \in Slots, e \in LLMErrors : LLMFail(s, e)
  \/ \E s \in Slots : SaveReply(s)
  \/ \E s \in Slots : SaveError(s)
  \/ \E s \in Slots : Cancel(s)
  \/ Restart

Spec == Init /\ [][Next]_vars

\* the steps of a request being served: each await of process_user_message
\* returns or raises (the model client has a timeout, the tools are local)
TurnStep(s, max) ==
  \/ LoadHistory(s)
  \/ SaveSystem(s)
  \/ SaveUser(s)
  \/ \E t \in LLMTexts : LLMRespondText(s, t)
  \/ \E calls \in ToolCallLists : LLMRespondTools(s, calls, max)
  \/ SaveCalls(s)
  \/ ExecTool(s)
  \/ SaveTool(s)
  \/ \E t \in LLMTexts : LLMRespondFinal(s, t)
  \/ \E e \in LLMErrors : LLMFail(s, e)
  \/ SaveReply(s)
  \/ SaveError(s)

\* the chat endpoint serving one user in one conversation
NextTurn ==
  \/ \E m \in UserTexts : ChatReceive("A", "c1", m, MaxMsgs)
  \/ \E s \in Slots : TurnStep(s, MaxMsgs)
  \/ \E s \in Slots : Cancel(s)

\* the chat endpoint, every request being served always taking its next step
SpecTurn ==
  Init /\ [][NextTurn]_vars /\ \A s \in Slots : WF_vars(TurnStep(s, MaxMsgs))

\* one user in one conversation, with room for a request to be served while
\* another one runs its tools
NextConversation ==
  \/ \E m \in UserTexts : ChatReceive("A", "c1", m, TurnMaxMsgs)
  \/ \E s \in Slots : TurnStep(s, TurnMaxMsgs)
  \/ \E s \in Slots : Cancel(s)

SpecConversation == Init /\ [][NextConversation]_vars

\* one user in one long conversation, the model answering in plain text
NextWindow ==
  \/ \E m \in UserTexts : ChatReceive("A", "c1", m, WindowMaxMsgs)
  \/ \E s \in Slots : LoadHistory(s)
  \/ \E s \in Slots : SaveUser(s)
  \/ \E s \in Slots, t \in LLMTexts : LLMRespondText(s, t)
  \/ \E s \in Slots : SaveReply(s)

\* the table after user A has had WindowTurns turns in conversation c1, each
\* answered in plain text: the system prompt, then user message and reply
WindowHistory ==
  [i \in 1..(2 * WindowTurns + 1) |->
     [ConversationMessage("c1", "A",
                          IF i = 1 THEN "system" ELSE IF i % 2 = 0 THEN "user" ELSE "assistant",
                          IF i = 1 THEN SYSTEM_PROMPT
                          ELSE IF i % 2 = 0 THEN Text("m1") ELSE Text("reply"),
                          <<>>, None, i) EXCEPT !.id = i]]

\* the server holding that conversation, no request being served
InitWindow ==
  /\ InitChat(WindowHistory)
  /\ tasks = {}
  /\ nextTaskId = 1
  /\ InitView("page")
  /\ InitWeb

SpecWindow == InitWindow /\ [][NextWindow]_vars

\* the task endpoints called by two users
NextTasks ==
  \/ \E u \in Users, title \in Titles : TaskCreate(u, title)
  \/ \E u \in Users : TaskList(u)
  \/ \E u \in Users, id \in 1..(MaxTasks + 1) : TaskGet(u, id)
  \/ \E u \in Users, id \in 1..(MaxTasks + 1), title \in Titles : TaskUpdate(u, id, title)
  \/ \E u \in Users, id \in 1..(MaxTasks + 1) : TaskToggle(u, id)
  \/ \E u \in Users, id \in 1..(MaxTasks + 1) : TaskDelete(u, id)

SpecTasks == Init /\ [][NextTasks]_vars

\* either chat view, the server answering or failing each request
InitChatUI == InitServer /\ InitWeb /\ \E v \in Views : InitView(v)

NextChatUI ==
  \/ \E t \in Inputs : TypeInput(t)
  \/ Submit
  \/ \E cid \in ServerConvIds, text \in LLMTexts : SendResolved(cid, text)
  \/ \E err \in ClientErrors : SendRejected(err)
  \/ \E cid \in ServerConvIds : HistoryConversations(cid)
  \/ HistoryNoConversation
  \/ \E h \in Histories : HistoryMessages(h)
  \/ HistoryFailed
  \/ \E i \in 1..MaxInFlight : ServerHandles(i)
  \/ \E i \in 1..MaxInFlight : ClientReceives(i)

SpecChatUI == InitChatUI /\ [][NextChatUI]_vars

\* the dashboard of a signed-in user who has one task, after mount:
\* loadTasks is under way
InitDashboard ==
  /\ InitChatServer
  /\ tasks = {Task(1, DashUser, Title(0, 1), FALSE, 1)}
  /\ nextTaskId = 2
  /\ InitView("widget")
  /\ InitSession
  /\ InitDash(<<Request("load", 0, EmptyTitle, <<>>)>>)

\* the dashboard with its chat widget, the server answering each request
NextDashboard ==
  \/ \E id \in TaskIds : ToggleClick(id)
  \/ \E id \in TaskIds, accepted \in BOOLEAN : DeleteClick(id, accepted)
  \/ \E id \in 0..MaxTasks : OpenForm(id)
  \/ CancelForm
  \/ DashFormSubmit
  \/ \E i \in 1..MaxInFlight : ServerHandles(i)
  \/ \E i \in 1..MaxInFlight : ClientReceives(i)
  \/ \E t \in {"m1"} : TypeInput(t)
  \/ Submit
  \/ ChatToolCreates
  \/ \E cid \in {1}, text \in LLMTexts : SendResolved(cid, text)
  \/ \E err \in {"Failed to send message"} : SendRejected(err)

SpecDashboard == InitDashboard /\ [][NextDashboard]_vars

\* the HTTP client answering one call after another
NextApi ==
  \/ \E status \in Statuses, body \in Bodies, token \in Tokens :
       ApiRequest(status, body, token)
  \/ \E token \in Tokens : ApiRequestFetchFails(token)

SpecApi == Init /\ [][NextApi]_vars

\* the session of one browser
NextAuth ==
  \/ \E method \in ServiceMethods : ServiceRequest(method)
  \/ \E path \in Paths : Navigate(path)
  \/ ChatPageRender
  \/ ChatPageEffects
  \/ DashboardMount
  \/ TokenExpires
  \/ Signout
  \/ \E email \in Emails, password \in Passwords : SigninSubmit(email, password)
  \/ \E t \in AnswerTokens, u \in UserObjects : SigninResolved(t, u)
  \/ \E message \in AuthErrors : SigninRejected(message)
  \/ \E email \in Emails, password \in Passwords : SignupSubmit(email, password)
  \/ \E t \in AnswerTokens, u \in UserObjects : SignupResolved(t, u)
  \/ \E message \in AuthErrors : SignupRejected(message)

SpecAuth == Init /\ [][NextAuth]_vars

\* the task tools and endpoints working on one task table
NextTools ==
  \/ \E u \in Users, title \in Titles : TaskCreate(u, title)
  \/ \E u \in Users, id \in 1..(MaxTasks + 1) : CompleteTask(u, id)
  \/ \E u \in Users, id \in 1..(MaxTasks + 1) : TaskToggle(u, id)

SpecTools == Init /\ [][NextTools]_vars

\* task creation through the form and by direct requests
NextTaskForm ==
  \/ \E title \in Titles : FormSetTitle(title)
  \/ FormSubmit
  \/ \E u \in Users, failure \in {""} \cup RequestFailures : FormRequest(u, failure)
  \/ FormCreate
  \/ \E u \in Users, title \in Titles : TaskCreate(u, title)

SpecTaskForm == Init /\ [][NextTaskForm]_vars

\* registrations arriving on two connections
NextRegister ==
  \/ \E c \in Connections, email \in RegEmails, password \in Passwords \ {""} :
       RegisterLookup(c, email, password)
  \/ \E c \in Connections : RegisterInsert(c)

SpecRegister == Init /\ [][NextRegister]_vars

(***************************************************************************)
(* Properties of the chat endpoint                                         *)
(***************************************************************************)
IsPrefix(s, t) == Len(s) <= Len(t) /\ \A i \in DOMAIN s : s[i] = t[i]

\* the rows the request in slot s has stored, in the order it stored them
TurnRows(s) == [i \in DOMAIN turnIdx[s] |-> store[turnIdx[s][i]]]

Roles(rows) == [i \in DOMAIN rows |-> rows[i].role]

\* C2 (as claimed): a conversation id created under one user is never used
\* by another user: every row of a conversation carries the user of the
\* conversation's first row, so a foreign request adds no message to it.
C2_ConversationNotReusedByOthers ==
  \A i, j \in DOMAIN store :
    store[i].conversation_id = store[j].conversation_id
      => store[i].user_id = store[j].user_id

\* C3: every tool invocation of a chat turn runs with the owner set to the
\* caller of the chat request, whatever owner the model wrote in the
\* arguments, and leaves every other owner's tasks untouched.
C3_ToolsRunAsCaller ==
  [][\A s \in Slots :
       (pc[s] = "tools" /\ pc'[s] = "save_tool") =>
         /\ lastTool'.caller = req[s].user_id
         /\ lastTool'.user_id = lastTool'.caller
         /\ \A u \in Users \ {req[s].user_id} : TasksOf(tasks', u) = TasksOf(tasks, u)]_vars

C3_Witness ==
  \E s \in Slots :
    /\ pc[s] = "llm2"
    /\ req[s].user_id = "A"
    /\ turnCalls[s] = <<ToolCall("create_task", Arguments(TRUE, "B", 0))>>
    /\ lastTool = [caller |-> "A", name |-> "create_task", user_id |-> "A", task_id |-> 0]
    /\ tasks = {Task(1, "A", Title(0, 1), FALSE, 1)}

\* C4 (as claimed): a turn in which the model requested exactly one tool
\* call, when it ends with its reply, has stored exactly: user message,
\* assistant message carrying the tool-call record, tool result, final
\* assistant message.
C4_OneToolTurnRows ==
  [][\A s \in Slots :
       (pc[s] \in {"save_reply", "save_error"} /\ pc'[s] = "idle"
          /\ Len(store') > Len(store) /\ Len(turnCalls[s]) = 1) =>
         LET rows == Append(TurnRows(s), store'[Len(store')])
         IN  /\ Roles(rows) = <<"user", "assistant", "tool", "assistant">>
             /\ rows[2].tool_calls = turnCalls[s]]_vars

\* C5 (as claimed): when the model call fails the reply is HTTP 200, is the
\* stored assistant message, and is one fixed apology text, the same
\* whatever the failure was.
C5_FixedApologyReply ==
  resp.failed =>
    /\ resp.status = 200
    /\ \A e \in ErrorTexts : resp.response = ErrorMessage(e)

\* C6 (as claimed): the model call is built from at most the 10 most recent
\* stored messages, plus the system instruction and the new user message.
C6_ContextWindowBound ==
  \A s \in Slots :
    pc[s] = "llm1" =>
      Len(SelectSeq(ctx[s], LAMBDA msg : msg.role # "system")) <= ContextWindow + 1

\* C7: a restart between two requests changes nothing observable: every
\* conversation reloads to the identical message sequence, the server is
\* ready for the follow-up request, and nothing a request holds lives only
\* in memory: whenever no save is under way, what the request has added to
\* its context since it loaded the history is exactly what it has stored.
C7_RestartChangesNothing ==
  /\ [][restarts' # restarts =>
          /\ \A s \in Slots : pc'[s] = "idle"
          /\ \A c \in ConvIds :
               load_conversation_history(store', c) = load_conversation_history(store, c)]_vars
  /\ [](\A s \in Slots :
          pc[s] \in {"llm1", "tools", "llm2"} =>
            LET own == TurnRows(s)
            IN  /\ Len(own) <= Len(ctx[s])
                /\ \A i \in DOMAIN own :
                     ctx[s][Len(ctx[s]) - Len(own) + i] = OpenAIMessage(own[i]))

C7_Witness ==
  /\ restarts = 1
  /\ Len(store) = 4
  /\ \E s \in Slots : pc[s] = "llm1" /\ Len(ctx[s]) = 4

\* C8 (as claimed): messages are append-only (a stored row is never changed
\* or removed) and every retrieval of a conversation returns the messages in
\* the order they were created, so that it extends every earlier retrieval.
C8_AppendOnlyChronological ==
  [][/\ \A i \in DOMAIN store : i \in DOMAIN store' /\ store'[i] = store[i]
     /\ \A c \in ConvIds :
          IsPrefix(load_conversation_history(store, c),
                   load_conversation_history(store', c))]_vars

\* the tool results the request in slot s has stored
ToolRows(s) == SelectSeq(TurnRows(s), LAMBDA row : row.role = "tool")

\* C27: within a turn the requested tools run one at a time in the order
\* the model requested them: whenever a tool is about to start or has just
\* run, exactly the calls before it have their results stored as tool rows
\* (and added to the context) in that order; the tool that runs is the first
\* call not yet run, its result is stored before the loop goes on, and the
\* second model call is issued only when no requested call is left.
C27_ToolsSequentialInOrder ==
  /\ [](\A s \in Slots :
          pc[s] \in {"tools", "save_tool", "llm2"} =>
            LET done == Len(turnCalls[s]) - Len(pending[s])
            IN  /\ pending[s] = SubSeq(turnCalls[s], done + 1, Len(turnCalls[s]))
                /\ Len(ToolRows(s)) = done
                /\ \A i \in 1..done :
                     /\ ToolRows(s)[i].name = turnCalls[s][i].name
                     /\ ToolRows(s)[i].content.kind = "json"
                     /\ ctx[s][Len(ctx[s]) - done + i] = OpenAIMessage(ToolRows(s)[i])
                /\ pc[s] = "llm2" => (pending[s] = <<>> /\ done = Len(turnCalls[s])))
  /\ [][\A s \in Slots :
          /\ (pc[s] = "tools" /\ pc'[s] = "save_tool") =>
                /\ lastTool'.name = Head(pending[s]).name
                /\ saving'[s].role = "tool"
                /\ saving'[s].name = Head(pending[s]).name
          /\ (pc[s] = "save_tool" /\ pc'[s] \notin {"save_tool", "idle"}) =>
                /\ pending'[s] = Tail(pending[s])
                /\ Len(store') = Len(store) + 1
                /\ store'[Len(store')] = [saving[s] EXCEPT !.id = Len(store')]]_vars

C27_Witness ==
  \E s \in Slots :
    /\ pc[s] = "llm2"
    /\ Len(turnCalls[s]) = 2
    /\ turnCalls[s][1].name = "create_task"
    /\ turnCalls[s][2].name = "delete_task"
    /\ Len(ToolRows(s)) = 2
    /\ ToolRows(s)[1].content = JsonDumps(Envelope(TRUE, "created", 1, {}))
    /\ ToolRows(s)[2].content = JsonDumps(Envelope(TRUE, "deleted", 1, {}))
    /\ tasks = {}

\* C28 (as claimed): a step of the tool loop never ends the turn: whatever
\* the requested call is (unknown name, malformed or rejected arguments,
\* store error), its outcome is stored as a tool row carrying an envelope
\* and the turn goes on to the next requested call or to the final model
\* call.
C28_ToolFailureNeverAbortsTurn ==
  [][\A s \in Slots :
       /\ (pc[s] \in {"save_calls", "tools", "save_tool"} /\ pc'[s] # "idle") =>
             pc'[s] \in {"save_calls", "tools", "save_tool", "llm2"}
       /\ (pc[s] = "save_tool" /\ pc'[s] \notin {"save_tool", "idle"}) =>
             /\ pending'[s] = Tail(pending[s])
             /\ store'[Len(store')].role = "tool"
             /\ store'[Len(store')].content.kind = "json"]_vars

\* C30 (as claimed): every stored row has role user, assistant or tool; the
\* system instruction is never stored.
C30_NoSystemRowStored ==
  \A i \in DOMAIN store : store[i].role \in {"user", "assistant", "tool"}

(***************************************************************************)
(* Properties of the task endpoints                                        *)
(***************************************************************************)
\* C1: a get, update, toggle or delete against a task id that the caller
\* does not own is answered exactly like one against a nonexistent id (the
\* same 404 response) and changes no task; a list returns only tasks of
\* the caller.
C1_TaskOwnerIsolation ==
  [][/\ (tresp'.op \in {"get", "update", "toggle", "delete"}
           /\ \A t \in tasks : t.id = tresp'.id => t.user_id # tresp'.caller)
          => /\ tresp' = NotFound(tresp'.op, tresp'.caller, tresp'.id)
             /\ tasks' = tasks
     /\ tresp'.op = "list" => \A t \in Rows(tresp'.body) : t.user_id = tresp'.caller]_vars

C1_Witness ==
  /\ tresp = NotFound("delete", "B", 1)
  /\ \E t \in tasks : t.id = 1 /\ t.user_id = "A" /\ t.completed
  /\ \E t \in tasks : t.user_id = "B"

(***************************************************************************)
(* Properties of the chat views                                            *)
(***************************************************************************)
\* C9 (as claimed): after a failed send the transcript is exactly what it
\* would have been without that send, and an inline error is shown.
C9_FailedSendRestoresTranscript ==
  lastOutcome = "failed" => (messages = expected /\ error # "")

\* C10 (as claimed): after a failed send the input field still holds the
\* text the user submitted.
C10_FailedSendKeepsInput ==
  lastOutcome = "failed" => Trim(input) = Trim(submitted)

\* C11 (as claimed): after a failed send the optimistic user message is
\* still in the transcript, followed by the failure shown as an
\* assistant-style message.
C11_FailedSendKeepsOptimisticBubble ==
  lastOutcome = "failed" =>
    /\ Len(messages) >= 2
    /\ messages[Len(messages) - 1] = Bubble("user", Trim(submitted))
    /\ messages[Len(messages)].role = "assistant"

\* C20 (as claimed): when the history load failed on mount and nothing was
\* sent yet, the chat page is a fresh conversation: empty transcript, no
\* active conversation id, no error shown.
C20_HistoryFailureStartsFresh ==
  (histPc = "failed" /\ submitted = "") =>
    /\ messages = <<>>
    /\ conversationId = 0
    /\ error = ""

\* C25: a chat view never has more than one chat request in flight, and
\* its in-flight flag is set exactly while one is; a submit made while a
\* request is pending sends nothing and changes nothing of the view; the
\* step in which the request completes, resolved or rejected, clears the
\* flag.
C25_OneChatRequestInFlight ==
  /\ [](chatInFlight <= 1 /\ (loading <=> chatInFlight = 1))
  /\ [][(loading /\ ~ignored /\ ignored') =>
          UNCHANGED <<messages, input, conversationId, loading, error, sendPc, sendConv,
                      chatInFlight, dashVars>>]_vars
  /\ [][loading => chatInFlight' <= chatInFlight]_vars
  /\ [][chatInFlight' < chatInFlight =>
          (~loading' /\ chatInFlight' = 0 /\ lastOutcome' \in {"ok", "failed"})]_vars

\* C25 witness: a submit was made, and ignored, while the one request of
\* the view is pending
C25_Witness ==
  /\ ignored
  /\ loading
  /\ chatInFlight = 1
  /\ sendPc = "awaiting"
  /\ messages = <<Bubble("user", "m1")>>

\* C26 (as claimed): on the chat page the active conversation id, once
\* set, never changes, and every request sent after the first successful
\* one carries the conversation id the first reply returned.
C26_ConversationIdStable ==
  /\ [][(view = "page" /\ conversationId # 0) => conversationId' = conversationId]_vars
  /\ [][(view = "page" /\ firstConv # 0 /\ sendPc = "idle" /\ sendPc' = "awaiting") =>
          sendConv' = firstConv]_vars

\* an upper bound of the steps a request at position at, with the tool calls
\* calls left, still has to take
RemainingAt(at, calls) ==
  CASE at = "load" -> 2 * MaxToolCalls + 7
    [] at = "save_system" -> 2 * MaxToolCalls + 6
    [] at = "save_user" -> 2 * MaxToolCalls + 5
    [] at = "llm1" -> 2 * MaxToolCalls + 4
    [] at = "save_calls" -> 2 * Len(calls) + 3
    [] at = "tools" -> 2 * Len(calls) + 2
    [] at = "save_tool" -> 2 * Len(calls) + 1
    [] at = "llm2" -> 2
    [] at \in {"save_reply", "save_error"} -> 1
    [] OTHER -> 0

Remaining(s) == RemainingAt(pc[s], pending[s])

\* C29: every chat request terminates after a bounded number of steps:
\* a turn issues at most two model calls, each call is attempted at most
\* StopAfterAttempt times, the attempts being counted for each call on its
\* own; every step of a request being served brings it closer to its end,
\* and the request reaches its end.
C29_TurnTerminatesBounded ==
  /\ [](\A s \in Slots : llmCalls[s] <= 2 /\ attempts[s] <= StopAfterAttempt)
  /\ [][\A s \in Slots : llmCalls'[s] > llmCalls[s] => attempts'[s] = 1]_vars
  /\ [][\A s \in Slots :
          (pc[s] # "idle" /\ <<pc[s], pending[s], saving[s], attempts[s]>>
                               # <<pc'[s], pending'[s], saving'[s], attempts'[s]>>) =>
            RemainingAt(pc'[s], pending'[s]) < Remaining(s)]_vars
  /\ \A s \in Slots : (pc[s] # "idle") ~> (pc[s] = "idle")

\* C29 witness: a turn that ran two tools and whose second model call
\* failed on a rate limit has ended with the error reply
C29_Witness ==
  \E s \in Slots :
    /\ pc[s] = "save_error"
    /\ llmCalls[s] = 2
    /\ attempts[s] = 1
    /\ Len(turnCalls[s]) = 2
    /\ saving[s].content = ErrorMessage("rate_limit")

(***************************************************************************)
(* Properties of the dashboard                                             *)
(***************************************************************************)
\* the requests in flight of kind op for task id
InFlight(reqs, op, id) == {k \in DOMAIN reqs : reqs[k].op = op /\ reqs[k].id = id}

\* C21 (as claimed): at most one toggle request per task is in flight, and
\* while one is, the toggle control of that task, when on screen, is
\* disabled.
C21_OneToggleInFlight ==
  \A id \in TaskIds :
    /\ Cardinality(InFlight(inflight, "toggle", id)) <= 1
    /\ (InFlight(inflight, "toggle", id) # {} /\ ~dashLoading /\ id \in Ids(dashTasks))
         => isToggling[id]

\* C22: in the widget, the step that ends a chat turn successfully sends a
\* reload of the task list (one more request in flight, the list showing
\* as loading), and the step that ends a failed turn sends nothing and
\* leaves the task list and its loading state alone.
C22_ReloadAfterSuccessfulTurn ==
  [][(view = "widget" /\ sendPc = "awaiting" /\ sendPc' = "idle") =>
       IF lastOutcome' = "ok"
       THEN /\ Len(inflight') = Len(inflight) + 1
            /\ inflight'[Len(inflight')] = Request("load", 0, EmptyTitle, <<>>)
            /\ dashLoading'
       ELSE /\ inflight' = inflight
            /\ dashLoading' = dashLoading
            /\ dashTasks' = dashTasks]_vars

C22_Witness ==
  /\ view = "widget"
  /\ lastOutcome = "ok"
  /\ sendPc = "idle"
  /\ sentCount = 3
  /\ inflight = <<>>
  /\ ~dashLoading
  /\ Ids(dashTasks) = {1, 2}
  /\ Rows(dashTasks) = Rows(TasksOf(tasks, DashUser))

\* C23: a delete request is sent only by a step in which the confirmation
\* prompt for that task was accepted; a step in which the prompt is
\* declined sends nothing and changes neither the task list nor the
\* server's tasks; and the server removes a task only on a delete request
\* for it.
C23_DeleteOnlyAfterConfirm ==
  [][/\ (\E id \in TaskIds :
            Cardinality(InFlight(inflight', "delete", id))
              > Cardinality(InFlight(inflight, "delete", id))) =>
          /\ lastConfirm'.accepted
          /\ inflight' = Append(inflight,
                                Request("delete", lastConfirm'.id, EmptyTitle, dashTasks))
     /\ (lastConfirm' # lastConfirm /\ ~lastConfirm'.accepted) =>
          (inflight' = inflight /\ dashTasks' = dashTasks /\ tasks' = tasks
             /\ isDeleting' = isDeleting)
     /\ \A t \in tasks :
          (\A q \in tasks' : q.id # t.id) =>
            \E k \in InFlight(inflight, "delete", t.id) : inflight[k].phase = "sent"]_vars

C23_Witness ==
  /\ lastConfirm = [id |-> 1, accepted |-> FALSE]
  /\ Ids(dashTasks) = {1, 2}
  /\ {t.id : t \in Rows(TasksOf(tasks, DashUser))} = {1, 2}
  /\ inflight = <<>>
  /\ isDeleting = NoneBusy
  /\ sentCount = 2

\* C24 (as claimed): once every request of the dashboard has completed, and
\* none has failed, the task list on screen holds exactly the server's
\* tasks of the signed-in user.
C24_ListMatchesServer ==
  (inflight = <<>> /\ ~dashLoading /\ sendPc = "idle" /\ error = "" /\ ~requestFailed) =>
    Rows(dashTasks) = Rows(TasksOf(tasks, DashUser))

(***************************************************************************)
(* Properties of the HTTP client                                           *)
(***************************************************************************)
\* C12 (as claimed): a 204 response is an empty success, and every other
\* non-2xx response whose body carries a message of the server (the error
\* field, or the message field) throws an error with a message the server
\* supplied in that body.
C12_ErrorCarriesServerMessage ==
  /\ apiOut.status = 204 =>
       (apiOut.kind = "return" /\ apiOut.data = EmptyBody)
  /\ (apiOut.status # 0 /\ ~Ok(apiOut.status) /\ apiOut.body.parses
        /\ (apiOut.body.error # "" \/ apiOut.body.message # "")) =>
       /\ apiOut.kind = "throw"
       /\ apiOut.message \in
            ({apiOut.body.error, apiOut.body.message, apiOut.body.detail} \ {""})

(***************************************************************************)
(* Properties of the session of the web client                             *)
(***************************************************************************)
\* C13: after sign-out, and until the next successful sign-in or sign-up,
\* neither the token nor the user object is in browser storage and the
\* client reports unauthenticated; every service call made in that time
\* fails as not authenticated without sending a request; and every request
\* a service sends carries the token stored at that moment.
C13_SignedOutClient ==
  /\ signedOut => (auth_token = "" /\ auth_user = "" /\ ~isAuthenticated(auth_token))
  /\ svc.signedOut => (svc.kind = "not_authenticated" /\ svc.authorization = "")
  /\ svc.kind = "sent" =>
       (svc.stored # "" /\ svc.authorization = "Bearer " \o svc.stored)

C13_Witness ==
  /\ signedOut
  /\ lastAuth.ok
  /\ svc.signedOut
  /\ svc.method = "sendMessage"
  /\ svc.kind = "not_authenticated"

\* C14 (as claimed): the content of a protected page comes on screen, and
\* the page finishes mounting, only while a valid token is stored.
C14_ProtectedOnlyWithValidToken ==
  [][/\ (rendered' /\ ~rendered) => (auth_token # "" /\ ~tokenExpired)
     /\ (pagePc' = "mounted" /\ pagePc # "mounted") =>
          (auth_token # "" /\ ~tokenExpired)]_vars

\* C16 (as claimed): when a sign-in or sign-up attempt ends in success, the
\* stored token is the token the server issued in its answer and the
\* browser is sent to the dashboard with it stored; when it fails nothing
\* is stored and there is no redirect.
C16_StoresIssuedToken ==
  [][Len(authPending') < Len(authPending) =>
       IF lastAuth'.ok
       THEN /\ auth_token' = IF lastAuth'.token # "" THEN lastAuth'.token
                             ELSE lastAuth'.access_token
            /\ route' = "/dashboard"
       ELSE auth_token' = auth_token /\ route' = route]_vars

\* C15 (as claimed): the middleware classes the dashboard and chat paths
\* as protected and the sign-in and sign-up paths as public-only, and
\* redirects a signed-in user who requests a public-only path.
C15_GateRedirectsSignedInUsers ==
  /\ mw.pathname \in {"/dashboard", "/chat"} => mw.response.isProtectedRoute
  /\ mw.pathname \in {"/signin", "/signup"} =>
       /\ mw.response.isPublicRoute
       /\ mw.signedIn =>
            (mw.response.action = "redirect" /\ mw.response.location # mw.pathname)

(***************************************************************************)
(* Properties of the task tools                                            *)
(***************************************************************************)
\* C17 (as claimed): complete_task on a task the caller owns succeeds
\* whether or not the task is already complete, leaves the task completed,
\* and on an already completed task reports already-complete and changes
\* nothing.
C17_CompleteTaskIdempotent ==
  [][(toolOut' # toolOut /\ toolOut'.owned) =>
       /\ toolOut'.envelope.success
       /\ TasksById(tasks', toolOut'.caller, toolOut'.task_id) # {}
       /\ \A t \in TasksById(tasks', toolOut'.caller, toolOut'.task_id) : t.completed
       /\ toolOut'.wasCompleted =>
            (toolOut'.envelope.what = "already_complete" /\ tasks' = tasks)]_vars

\* C18: a create request is accepted exactly when the title has 1 to 500
\* characters after trimming and is otherwise refused as invalid input;
\* every stored title is trimmed, non-empty and at most 500 characters;
\* and the form refuses a title only when it is not acceptable.
C18_TitleValidation ==
  /\ tresp.op = "create" =>
       /\ tresp.status = 201 <=>
            (TitleLength(TitleTrim(lastTitle)) >= 1
               /\ TitleLength(TitleTrim(lastTitle)) <= MaxTitleLength)
       /\ tresp.status # 201 => tresp = InvalidInput("create", tresp.caller, 0)
  /\ \A t \in tasks :
       t.title.pad = 0 /\ t.title.core >= 1 /\ t.title.core <= MaxTitleLength
  /\ formErr \in {"Title is required", "Title must be 500 characters or less"} =>
       ~(formChecked.core >= 1 /\ formChecked.core <= MaxTitleLength)

C18_Witness ==
  /\ \E t \in tasks : t.title = Title(0, MaxTitleLength) /\ t.id = 1
  /\ tresp = InvalidInput("create", "B", 0)
  /\ lastTitle = Title(1, MaxTitleLength + 1)
  /\ formErr = "Title is required"
  /\ formChecked = Title(1, 0)

(***************************************************************************)
(* Properties of registration                                              *)
(***************************************************************************)
\* C19: no two accounts ever have e-mails that are equal ignoring case; a
\* registration that ends while an account with a case-insensitively equal
\* e-mail exists is rejected with Conflict; and no registration changes or
\* removes an existing account.
C19_EmailUniqueness ==
  /\ [](\A u1, u2 \in users : Lower(u1.email) = Lower(u2.email) => u1 = u2)
  /\ [][/\ users \subseteq users'
        /\ \A c \in Connections :
             (reg'[c].pc = "done" /\ reg'[c] # reg[c]
                /\ \E u \in users : Lower(u.email) = Lower(reg'[c].email))
               => (reg'[c].status = 409 /\ users' = users)]_vars

C19_Witness ==
  /\ users = {User(1, "A@x.com", "Passw0rd")}
  /\ reg[1] = RegRequest("done", "A@x.com", "Passw0rd", 200, "")
  /\ reg[2] = RegRequest("done", "a@x.com", "Passw0rd", 409, "index")

====
